---- MODULE Spec2Model ----
(***************************************************************************)
(* Document Center (src/Code.js): the record store kept in the sheets      *)
(* Documents, Categories, Tags, UserFavorites, OnlineUsers, ActivityLog    *)
(* and Analytics and the operations of the backend on it.                  *)
(*                                                                         *)
(* A sheet is the sequence of its rows, the title row first, as            *)
(* getDataRange().getValues() returns it.  Sheet row number r (1-based) is *)
(* element r of the sequence; the code's 0-based array index i is row      *)
(* i + 1.  Operators that model a findIndex return the code's 0-based      *)
(* index, -1 when nothing matches.                                         *)
(*                                                                         *)
(* A row is a record with one field per column.  Columns that no          *)
(* operation of the model reads (Description, FileType, the date a        *)
(* category, tag or favorite was created) are left out.                   *)
(*                                                                         *)
(* Every request runs to completion before the next starts (one action    *)
(* per request); `now` is the clock a request reads.                      *)
(***************************************************************************)
EXTENDS Integers, Sequences, FiniteSets, TLC

VARIABLES
    documents,      \* sheet Documents
    categories,     \* sheet Categories
    tags,           \* sheet Tags
    favorites,      \* sheet UserFavorites
    sessions,       \* sheet OnlineUsers
    activityLog,    \* sheet ActivityLog
    analytics,      \* sheet Analytics
    sheets,         \* the names getSheetByName finds a sheet for
    logFails,       \* appendRow on the sheet ActivityLog throws
    now,            \* the clock, in minutes
    idCounter,      \* number of ids generateId has handed out
    requests,       \* number of requests served
    last,           \* the last request: what was asked, by whom, and what it found
    calls           \* the requests served step by step: position and locals

vars == <<documents, categories, tags, favorites, sessions, activityLog,
          analytics, sheets, logFails, now, idCounter, requests, last,
          calls>>

store == <<documents, categories, tags, favorites, sessions, activityLog,
           analytics, sheets, logFails>>

(***************************************************************************)
(* Bounds of the model.                                                    *)
(***************************************************************************)
\* at most MaxRequests requests are served in a run
MaxRequests == 4
\* the clock advances at most MaxTicks times in a run
MaxTicks == 3

(***************************************************************************)
(* Configuration (CONFIG).                                                 *)
(***************************************************************************)
sessionTimeout == 30

(***************************************************************************)
(* Generic helpers.                                                        *)
(***************************************************************************)
\* A slip: the count is written without the floor of 0.
unclamped(a, b) == b

Max(a, b) == IF a >= b THEN a ELSE b

\* sheet.deleteRow(rowNum): the rows below move up; a row number past the
\* last row with content removes nothing.
deleteRow(sheet, rowNum) ==
    IF rowNum \in 1..Len(sheet)
    THEN SubSeq(sheet, 1, rowNum - 1) \o SubSeq(sheet, rowNum + 1, Len(sheet))
    ELSE sheet

\* rowsToDelete.forEach(rowNum => sheet.deleteRow(rowNum)): one deleteRow
\* after the other, in the order of the list, each on the sheet as the
\* previous one left it.
RECURSIVE deleteRows(_, _)
deleteRows(sheet, rowNums) ==
    IF rowNums = <<>> THEN sheet
    ELSE deleteRows(deleteRow(sheet, Head(rowNums)), Tail(rowNums))

\* for (let i = data.length - 1; i >= 1; i--) if (P(data[i])) push(i + 1):
\* the row numbers of the matching rows below the title row, bottom-up.
\* `hits` is the set of matching row numbers.
RECURSIVE descending(_)
descending(hits) ==
    IF hits = {} THEN <<>>
    ELSE LET m == CHOOSE x \in hits : \A y \in hits : y <= x
         IN  <<m>> \o descending(hits \ {m})

\* data.findIndex(row => row[col] === value): 0-based, -1 when absent.
findIndex(data, col, value) ==
    LET hits == {i \in 1..Len(data) : data[i][col] = value}
    IN  IF hits = {} THEN -1
        ELSE (CHOOSE i \in hits : \A j \in hits : i <= j) - 1

(***************************************************************************)
(* Identifiers.  generateId(prefix) joins the prefix, the clock and a     *)
(* random suffix; the model hands out <<prefix, serial>> with a serial    *)
(* that is never reused.  A title cell of an id column is no generated    *)
(* id: it carries serial 0.                                               *)
(***************************************************************************)
generateId(prefix, n) == <<prefix, n + 1>>

(***************************************************************************)
(* Text.  A text that the code takes apart (a Tags cell, an e-mail        *)
(* address) is the sequence of its characters.                            *)
(***************************************************************************)
\* s.split(sep): the pieces between the separators, empty pieces included;
\* `piece` is the piece read so far.
RECURSIVE split(_, _, _)
split(s, sep, piece) ==
    IF s = <<>> THEN <<piece>>
    ELSE IF Head(s) = sep THEN <<piece>> \o split(Tail(s), sep, <<>>)
    ELSE split(Tail(s), sep, Append(piece, Head(s)))

RECURSIVE trimStart(_)
trimStart(s) ==
    IF s # <<>> /\ Head(s) = " " THEN trimStart(Tail(s)) ELSE s

RECURSIVE trimEnd(_)
trimEnd(s) ==
    IF s # <<>> /\ s[Len(s)] = " " THEN trimEnd(SubSeq(s, 1, Len(s) - 1)) ELSE s

\* t.trim()
trim(s) == trimEnd(trimStart(s))

\* parts.join(sep)
RECURSIVE join(_, _)
join(parts, sep) ==
    IF parts = <<>> THEN <<>>
    ELSE IF Len(parts) = 1 THEN parts[1]
    ELSE parts[1] \o <<sep>> \o join(Tail(parts), sep)

\* tagsString.split(',').map(t => t.trim())
splitTags(tagsString) ==
    LET pieces == split(tagsString, ",", <<>>)
    IN  [i \in 1..Len(pieces) |-> trim(pieces[i])]

(***************************************************************************)
(* Identity.  Session.getActiveUser().getEmail() is the address of the    *)
(* signed-in user, or empty.                                              *)
(***************************************************************************)
NoEmail == <<>>

Ann == <<"a", "@", "x">>

Bob == <<"b", ".", "c", "@", "x">>

Users == {Ann, Bob}

Principals == Users \cup {NoEmail}

\* part.charAt(0).toUpperCase() + part.slice(1), on the letters in use
toUpperCase(ch) ==
    CASE ch = "a" -> "A" [] ch = "b" -> "B" [] ch = "c" -> "C"
      [] ch = "x" -> "X" [] OTHER -> ch

capitalize(part) ==
    IF part = <<>> THEN part ELSE <<toUpperCase(Head(part))>> \o Tail(part)

\* email.split('@')[0].split('.').map(capitalize).join(' ')
displayName(email) ==
    LET parts == split(split(email, "@", <<>>)[1], ".", <<>>)
    IN  join([i \in 1..Len(parts) |-> capitalize(parts[i])], " ")

\* char.charCodeAt(0), on the characters in use
charCode(ch) ==
    CASE ch = "a" -> 97 [] ch = "b" -> 98 [] ch = "c" -> 99
      [] ch = "x" -> 120 [] ch = "@" -> 64 [] ch = "." -> 46 [] OTHER -> 0

\* CONFIG.animalAvatars.length
animalAvatars == 18

\* email.split('').reduce((acc, c) => (((acc << 5) - acc) + code(c)) | 0, 0).
\* The addresses of the model are short: the sum stays below 2^31, where
\* `| 0` changes nothing.
RECURSIVE hashCode(_, _)
hashCode(s, acc) ==
    IF s = <<>> THEN acc
    ELSE hashCode(Tail(s), (acc * 32 - acc) + charCode(Head(s)))

abs(x) == IF x < 0 THEN -x ELSE x

\* The avatar of the user's session row when there is one, else the
\* avatar at the hash of the address (avatars are named by their index).
getOrAssignUserAvatar(sheet, email) ==
    LET rows == {i \in 2..Len(sheet) :
                   sheet[i].UserEmail = email /\ sheet[i].Avatar # 0}
    IN  IF rows # {}
        THEN sheet[CHOOSE i \in rows : \A j \in rows : i <= j].Avatar
        ELSE (abs(hashCode(email, 0)) % animalAvatars) + 1

getCurrentUser(sheet, email) ==
    IF email = NoEmail
    THEN [isSignedIn |-> FALSE, email |-> NoEmail, name |-> <<>>, avatar |-> 0]
    ELSE [isSignedIn |-> TRUE, email |-> email, name |-> displayName(email),
          avatar |-> getOrAssignUserAvatar(sheet, email)]

(***************************************************************************)
(* Sheets.  The title row of a sheet holds the column names.  A cell that *)
(* the code compares with ids or with texts it takes apart has that shape *)
(* in the title row too; a title cell of a date or number column is       *)
(* TitleCell.  No value a request passes in is the text of a title cell   *)
(* of a text column, so headers.indexOf(column) finds a column exactly    *)
(* when the first row still holds that column's title; the one exception  *)
(* is the id a request passes in TitleIdArgs, the text of the title cell  *)
(* of the id column.                                                      *)
(***************************************************************************)
TitleCell == -1

Undefined == "undefined"

UndefinedText == <<"undefined">>

DocumentsTitle ==
    [DocumentID |-> <<"DocumentID", 0>>, DocumentName |-> "DocumentName",
     GoogleDriveURL |-> "GoogleDriveURL", Category |-> "Category",
     CreatedBy |-> <<"CreatedBy">>, Tags |-> <<"T", "a", "g", "s">>,
     DateAdded |-> TitleCell, LastModified |-> TitleCell, Status |-> "Status"]

CategoriesTitle ==
    [CategoryID |-> <<"CategoryID", 0>>, CategoryName |-> "CategoryName",
     CreatedBy |-> <<"CreatedBy">>, IsActive |-> FALSE, DocumentCount |-> TitleCell]

TagsTitle ==
    [TagID |-> <<"TagID", 0>>, TagName |-> <<"TagName">>,
     CreatedBy |-> <<"CreatedBy">>, UsageCount |-> TitleCell]

FavoritesTitle ==
    [FavoriteID |-> <<"FavoriteID", 0>>, UserEmail |-> <<"UserEmail">>,
     DocumentID |-> <<"DocumentID", 0>>, DateAdded |-> TitleCell]

SessionsTitle ==
    [SessionID |-> <<"SessionID", 0>>, UserEmail |-> <<"UserEmail">>,
     UserName |-> <<"UserName">>, LoginTime |-> TitleCell,
     LastActivity |-> TitleCell, Avatar |-> 0, Status |-> "Status"]

ActivityTitle ==
    [ActivityID |-> <<"ActivityID", 0>>, UserEmail |-> <<"UserEmail">>,
     UserName |-> <<"UserName">>, Action |-> "Action",
     DocID |-> <<"DocID", 0>>, Details |-> <<"Details">>, Timestamp |-> TitleCell]

\* The tags the Tags sheet is set up with (no operation adds a tag row).
TagNames == <<<<"a">>, <<"b">>>>

\* The store a request works on, and the id counter, as one record.
\* Analytics: a row per recorded view
AnalyticsTitle ==
    [ViewID |-> <<"ViewID", 0>>, DocumentID |-> <<"DocumentID", 0>>,
     UserEmail |-> <<"UserEmail">>, Timestamp |-> TitleCell,
     DocumentName |-> "DocumentName"]

\* The names of the sheets the operations ask getSheetByName for.
SheetNames ==
    {"Documents", "Categories", "Tags", "UserFavorites", "OnlineUsers",
     "ActivityLog", "Analytics"}

Store ==
    [documents |-> documents, categories |-> categories, tags |-> tags,
     favorites |-> favorites, sessions |-> sessions,
     activityLog |-> activityLog, analytics |-> analytics, sheets |-> sheets,
     logFails |-> logFails, idCounter |-> idCounter]

\* ss.getSheetByName(name) is not null.  The rows of a sheet that does not
\* exist are <<>>.
hasSheet(S, name) == name \in S.sheets

\* What a request returns: JSON.stringify({success, error, ...}).
NoId == <<"", 0>>

Ok == [success |-> TRUE, error |-> "", id |-> NoId, favorited |-> FALSE,
       users |-> <<>>, summary |-> <<>>, activities |-> <<>>]

\* { success: false, error: 'Database not initialized' }
NotInitialized ==
    [success |-> FALSE, error |-> "Database not initialized", id |-> NoId,
     favorited |-> FALSE, users |-> <<>>, summary |-> <<>>,
     activities |-> <<>>]

Failure(msg) == [success |-> FALSE, error |-> msg, id |-> NoId,
                 favorited |-> FALSE, users |-> <<>>, summary |-> <<>>,
                 activities |-> <<>>]

(***************************************************************************)
(* Side effects shared by the operations.                                  *)
(***************************************************************************)
\* logActivity(user, action, docId, details): one row appended.  Details
\* is the list of the parts the code joins into the details text.
\* A slip: the entry is inserted right below the titles.
logActivityOnTop(S, user, action, docId, details, t) ==
    [S EXCEPT !.activityLog =
                  <<Head(@),
                    [ActivityID |-> generateId("ACT", S.idCounter),
                     UserEmail |-> user.email, UserName |-> user.name,
                     Action |-> action, DocID |-> docId,
                     Details |-> details, Timestamp |-> t]>> \o Tail(@),
              !.idCounter = @ + 1]

\* logActivity: without the sheet nothing is written; an appendRow that
\* throws is caught and nothing is written.
logActivity(S, user, action, docId, details, t) ==
    IF ~hasSheet(S, "ActivityLog") \/ S.logFails THEN S
    ELSE [S EXCEPT !.activityLog =
                  Append(@, [ActivityID |-> generateId("ACT", S.idCounter),
                             UserEmail |-> user.email, UserName |-> user.name,
                             Action |-> action, DocID |-> docId,
                             Details |-> details, Timestamp |-> t]),
              !.idCounter = @ + 1]

\* updateCategoryCount(categoryName, delta)
\* A slip: the count is written on the row above.
updateCategoryCountAbove(S, categoryName, delta) ==
    LET data == S.categories
        rowIndex == findIndex(data, "CategoryName", categoryName)
    IN  IF rowIndex > 0
        THEN LET currentCount == data[rowIndex + 1].DocumentCount
             IN  [S EXCEPT !.categories[rowIndex].DocumentCount =
                               Max(0, currentCount + delta)]
        ELSE S

updateCategoryCount(S, categoryName, delta) ==
    LET data == S.categories
        rowIndex == findIndex(data, "CategoryName", categoryName)
    IN  IF ~hasSheet(S, "Categories") THEN S
        ELSE IF rowIndex > 0
        THEN LET currentCount == data[rowIndex + 1].DocumentCount
             IN  [S EXCEPT !.categories[rowIndex + 1].DocumentCount =
                               Max(0, currentCount + delta)]
        ELSE S

\* !tagsString: the empty text and undefined are falsy
isFalsyText(text) == text = <<>> \/ text = UndefinedText

\* tags.forEach(tag => ...) of updateTagCounts: every count is computed
\* from `data`, the rows as read before the loop, and written to `sheet`.
RECURSIVE updateEachTag(_, _, _, _)
updateEachTag(sheet, data, tagList, delta) ==
    IF tagList = <<>> THEN sheet
    ELSE LET rowIndex == findIndex(data, "TagName", Head(tagList))
             written ==
                 IF rowIndex > 0
                 THEN [sheet EXCEPT ![rowIndex + 1].UsageCount =
                                       Max(0, data[rowIndex + 1].UsageCount + delta)]
                 ELSE sheet
         IN  updateEachTag(written, data, Tail(tagList), delta)

\* updateTagCounts(tagsString, delta)
updateTagCounts(S, tagsString, delta) ==
    IF isFalsyText(tagsString) \/ ~hasSheet(S, "Tags") THEN S
    ELSE [S EXCEPT !.tags = updateEachTag(@, @, splitTags(tagsString), delta)]

\* A slip: the matching rows collected top-down.
favoriteRowsTopDown(data, docId) ==
    LET bottomUp == descending({r \in 2..Len(data) : data[r].DocumentID = docId})
    IN  [i \in 1..Len(bottomUp) |-> bottomUp[Len(bottomUp) + 1 - i]]

\* rowsToDelete of removeFromAllFavorites: the rows of the document,
\* collected bottom-up.
favoriteRowsToDelete(data, docId) ==
    descending({r \in 2..Len(data) : data[r].DocumentID = docId})

\* removeFromAllFavorites(docId): the rows are deleted in the order
\* they were collected.
removeFromAllFavorites(S, docId) ==
    LET data == S.favorites
    IN  IF ~hasSheet(S, "UserFavorites") \/ Len(data) <= 1 THEN S
        ELSE [S EXCEPT !.favorites =
                           deleteRows(@, favoriteRowsToDelete(data, docId))]

\* isDuplicateURL(url): the url cells from row 2 down
isDuplicateURL(S, url) ==
    IF ~hasSheet(S, "Documents") \/ Len(S.documents) <= 1 THEN FALSE
    ELSE \E r \in 2..Len(S.documents) : S.documents[r].GoogleDriveURL = url

(***************************************************************************)
(* Document operations.  Each takes the store S, the address of the       *)
(* requesting user (NoEmail: nobody signed in), its arguments and the     *)
(* clock t, and yields the store it leaves behind and what it returns.    *)
(***************************************************************************)
Result(S, ret) == [S |-> S, ret |-> ret]

\* addDocument(documentData); a field the caller leaves out is empty
addDocument(S, email, documentData, t) ==
    LET user == getCurrentUser(S.sessions, email)
        docId == generateId("DOC", S.idCounter)
        newDocument ==
            [DocumentID |-> docId, DocumentName |-> documentData.DocumentName,
             GoogleDriveURL |-> documentData.GoogleDriveURL,
             Category |-> documentData.Category, CreatedBy |-> user.email,
             Tags |-> documentData.Tags, DateAdded |-> t, LastModified |-> t,
             Status |-> "Active"]
        appended == [S EXCEPT !.documents = Append(@, newDocument),
                              !.idCounter = @ + 1]
        logged == logActivity(appended, user, "Created Document", docId,
                              <<"Created", documentData.DocumentName>>, t)
        counted == updateCategoryCount(logged, documentData.Category, 1)
        tagged == IF documentData.Tags # <<>>
                  THEN updateTagCounts(counted, documentData.Tags, 1)
                  ELSE counted
    IN  IF ~user.isSignedIn THEN Result(S, Failure("User not authenticated"))
        ELSE IF documentData.DocumentName = "" \/ documentData.GoogleDriveURL = ""
                \/ documentData.Category = ""
        THEN Result(S, Failure("Missing required fields"))
        ELSE IF isDuplicateURL(S, documentData.GoogleDriveURL)
        THEN Result(S, Failure("A document with this URL already exists"))
        ELSE IF ~hasSheet(S, "Documents") THEN Result(S, NotInitialized)
        ELSE Result(tagged, [Ok EXCEPT !.id = docId])

\* `${field} updated`
changeText(field) ==
    CASE field = "DocumentName" -> "DocumentName updated"
      [] field = "GoogleDriveURL" -> "GoogleDriveURL updated"
      [] field = "Category" -> "Category updated"
      [] field = "Tags" -> "Tags updated"
      [] field = "Status" -> "Status updated"
      [] OTHER -> "updated"

\* headers.indexOf(column) > -1
hasColumn(headers, column) == headers[column] = DocumentsTitle[column]

\* A slip: every field of updates with a column is noted as a change.
RECURSIVE writeFieldsNotingAll(_, _, _, _, _)
writeFieldsNotingAll(sheet, data, row, updates, changes) ==
    IF updates = <<>> THEN [sheet |-> sheet, changes |-> changes]
    ELSE LET field == Head(updates)[1]
             value == Head(updates)[2]
         IN  IF hasColumn(data[1], field)
             THEN writeFieldsNotingAll([sheet EXCEPT ![row][field] = value],
                                       data, row, Tail(updates),
                                       Append(changes, changeText(field)))
             ELSE writeFieldsNotingAll(sheet, data, row, Tail(updates), changes)

\* Object.keys(updates).forEach(...) of updateDocument.  `updates` is the
\* list of the <<field, value>> pairs of the object, in key order; `data`
\* the rows as read before the loop.  Yields the sheet and the changes.
RECURSIVE writeFields(_, _, _, _, _)
writeFields(sheet, data, row, updates, changes) ==
    IF updates = <<>> THEN [sheet |-> sheet, changes |-> changes]
    ELSE LET field == Head(updates)[1]
             value == Head(updates)[2]
         IN  IF hasColumn(data[1], field) /\ data[row][field] # value
             THEN writeFields([sheet EXCEPT ![row][field] = value], data, row,
                              Tail(updates), Append(changes, changeText(field)))
             ELSE writeFields(sheet, data, row, Tail(updates), changes)

\* updates[field]; the text fields yield `undefined` when the key is absent
valueOf(updates, field, undefined) ==
    LET hits == {k \in 1..Len(updates) : updates[k][1] = field}
    IN  IF hits = {} THEN undefined ELSE updates[CHOOSE k \in hits : TRUE][2]

\* updateDocument(docId, updates)
updateDocument(S, email, docId, updates, t) ==
    LET user == getCurrentUser(S.sessions, email)
        data == S.documents
        headers == data[1]
        rowIndex == findIndex(data, "DocumentID", docId)
        row == rowIndex + 1
        oldCategory == IF hasColumn(headers, "Category")
                       THEN data[row].Category ELSE Undefined
        oldTags == IF hasColumn(headers, "Tags")
                   THEN data[row].Tags ELSE UndefinedText
        written == writeFields(data, data, row, updates, <<>>)
        afterWrites == [S EXCEPT !.documents = written.sheet]
        stamped == [afterWrites EXCEPT !.documents[row].LastModified = t]
        newCategory == valueOf(updates, "Category", Undefined)
        newTags == valueOf(updates, "Tags", UndefinedText)
        counted ==
            IF newCategory # Undefined /\ newCategory # "" /\ newCategory # oldCategory
            THEN updateCategoryCount(updateCategoryCount(stamped, oldCategory, -1),
                                     newCategory, 1)
            ELSE stamped
        tagged ==
            IF newTags # oldTags
            THEN updateTagCounts(updateTagCounts(counted, oldTags, -1), newTags, 1)
            ELSE counted
        logged ==
            IF written.changes # <<>>
            THEN logActivity(tagged, user, "Updated Document", docId,
                             written.changes, t)
            ELSE tagged
    IN  IF ~user.isSignedIn THEN Result(S, Failure("User not authenticated"))
        ELSE IF ~hasSheet(S, "Documents") THEN Result(S, NotInitialized)
        ELSE IF rowIndex = -1 THEN Result(S, Failure("Document not found"))
        ELSE IF ~hasColumn(headers, "LastModified")
        \* getRange(row, 0) throws; the cells already written stay written
        THEN Result(afterWrites, Failure("Exception"))
        ELSE Result(logged, Ok)

\* archiveDocument(docId)
archiveDocument(S, email, docId, t) ==
    LET user == getCurrentUser(S.sessions, email)
        result == updateDocument(S, email, docId, <<<<"Status", "Archived">>>>, t)
    IN  IF result.ret.success
        THEN Result(logActivity(result.S, user, "Archived Document", docId,
                                <<"Document archived">>, t), result.ret)
        ELSE result

\* restoreDocument(docId)
restoreDocument(S, email, docId, t) ==
    LET user == getCurrentUser(S.sessions, email)
        result == updateDocument(S, email, docId, <<<<"Status", "Active">>>>, t)
    IN  IF result.ret.success
        THEN Result(logActivity(result.S, user, "Restored Document", docId,
                                <<"Document restored">>, t), result.ret)
        ELSE result

\* docIds.forEach(docId => { updateDocument(docId, { Status: status });
\* if (result.success) { logActivity(..., 'Bulk operation'); successCount++ } })
\* Yields the store and successCount.
RECURSIVE bulkUpdate(_, _, _, _, _, _, _)
bulkUpdate(S, user, email, docIds, status, action, t) ==
    IF docIds = <<>> THEN [S |-> S, successCount |-> 0]
    ELSE LET docId == Head(docIds)
             result == updateDocument(S, email, docId, <<<<"Status", status>>>>, t)
             after == IF result.ret.success
                      THEN logActivity(result.S, user, action, docId,
                                       <<"Bulk operation">>, t)
                      ELSE result.S
             rest == bulkUpdate(after, user, email, Tail(docIds), status, action, t)
         IN  [S |-> rest.S,
              successCount |-> rest.successCount
                               + (IF result.ret.success THEN 1 ELSE 0)]

\* A slip: every id passed is reported as succeeded.
summaryOfLength(successCount, length, verb) == <<length, length, verb>>

\* `${successCount} of ${docIds.length} documents ${verb}.`
summaryText(successCount, length, verb) == <<successCount, length, verb>>

\* bulkArchiveDocuments(docIds)
bulkArchiveDocuments(S, email, docIds, t) ==
    LET user == getCurrentUser(S.sessions, email)
        done == bulkUpdate(S, user, email, docIds, "Archived",
                           "Archived Document", t)
    IN  IF ~user.isSignedIn THEN Result(S, Failure("User not authenticated"))
        ELSE Result(done.S,
                    [Ok EXCEPT !.summary = summaryText(done.successCount,
                                                       Len(docIds), "archived")])

\* bulkRestoreDocuments(docIds)
bulkRestoreDocuments(S, email, docIds, t) ==
    LET user == getCurrentUser(S.sessions, email)
        done == bulkUpdate(S, user, email, docIds, "Active",
                           "Restored Document", t)
    IN  IF ~user.isSignedIn THEN Result(S, Failure("User not authenticated"))
        ELSE Result(done.S,
                    [Ok EXCEPT !.summary = summaryText(done.successCount,
                                                       Len(docIds), "restored")])

\* deleteDocument(docId)
deleteDocument(S, email, docId, t) ==
    LET user == getCurrentUser(S.sessions, email)
        data == S.documents
        rowIndex == findIndex(data, "DocumentID", docId)
        row == rowIndex + 1
        docName == data[row].DocumentName
        category == data[row].Category
        docTags == data[row].Tags
        deleted == [S EXCEPT !.documents = deleteRow(@, row)]
        counted == updateCategoryCount(deleted, category, -1)
        tagged == IF ~isFalsyText(docTags)
                  THEN updateTagCounts(counted, docTags, -1) ELSE counted
        unfavored == removeFromAllFavorites(tagged, docId)
        logged == logActivity(unfavored, user, "Deleted Document", docId,
                              <<"Permanently deleted", docName>>, t)
    IN  IF ~user.isSignedIn THEN Result(S, Failure("User not authenticated"))
        ELSE IF ~hasSheet(S, "Documents") THEN Result(S, NotInitialized)
        ELSE IF rowIndex = -1 THEN Result(S, Failure("Document not found"))
        ELSE Result(logged, Ok)

\* addCategory(categoryName)
\* A slip: the category is added only when its activity can be logged.
addCategoryIfLogged(S, email, categoryName, t) ==
    LET user == getCurrentUser(S.sessions, email)
        categoryId == generateId("CAT", S.idCounter)
        appended ==
            [S EXCEPT !.categories =
                          Append(@, [CategoryID |-> categoryId,
                                     CategoryName |-> categoryName,
                                     CreatedBy |-> user.email, IsActive |-> TRUE,
                                     DocumentCount |-> 0]),
                      !.idCounter = @ + 1]
        logged == logActivity(appended, user, "Created Category", categoryId,
                              <<"Created category", categoryName>>, t)
    IN  IF ~user.isSignedIn THEN Result(S, Failure("User not authenticated"))
        ELSE IF ~hasSheet(S, "Categories") THEN Result(S, NotInitialized)
        ELSE IF \E r \in 1..Len(S.categories) :
                    S.categories[r].CategoryName = categoryName
        THEN Result(S, Failure("Category already exists"))
        ELSE IF logged = appended THEN Result(S, Failure("Exception"))
        ELSE Result(logged, [Ok EXCEPT !.id = categoryId])

addCategory(S, email, categoryName, t) ==
    LET user == getCurrentUser(S.sessions, email)
        data == S.categories
        categoryId == generateId("CAT", S.idCounter)
        appended ==
            [S EXCEPT !.categories =
                          Append(@, [CategoryID |-> categoryId,
                                     CategoryName |-> categoryName,
                                     CreatedBy |-> user.email, IsActive |-> TRUE,
                                     DocumentCount |-> 0]),
                      !.idCounter = @ + 1]
        logged == logActivity(appended, user, "Created Category", categoryId,
                              <<"Created category", categoryName>>, t)
    IN  IF ~user.isSignedIn THEN Result(S, Failure("User not authenticated"))
        ELSE IF ~hasSheet(S, "Categories") THEN Result(S, NotInitialized)
        ELSE IF \E r \in 1..Len(data) : data[r].CategoryName = categoryName
        THEN Result(S, Failure("Category already exists"))
        ELSE Result(logged, [Ok EXCEPT !.id = categoryId])

(***************************************************************************)
(* Favorites.                                                              *)
(***************************************************************************)
\* A slip: the row of any user matches.
findFavoriteOfAnyUser(data, email, docId) ==
    LET hits == {i \in 1..Len(data) : data[i].DocumentID = docId}
    IN  IF hits = {} THEN -1
        ELSE (CHOOSE i \in hits : \A j \in hits : i <= j) - 1

\* data.findIndex(row => row[1] === user.email && row[2] === docId)
findFavorite(data, email, docId) ==
    LET hits == {i \in 1..Len(data) :
                   data[i].UserEmail = email /\ data[i].DocumentID = docId}
    IN  IF hits = {} THEN -1
        ELSE (CHOOSE i \in hits : \A j \in hits : i <= j) - 1

\* A slip: the first row below the titles counts as not found.
isFavoriteBelowFirst(rowIndex) == rowIndex > 1

\* if (rowIndex > 0): the pair has a row (the title row is no favorite)
isFavorite(rowIndex) == rowIndex > 0

\* toggleFavorite(docId)
toggleFavorite(S, email, docId, t) ==
    LET user == getCurrentUser(S.sessions, email)
        data == S.favorites
        rowIndex == findFavorite(data, user.email, docId)
        removed == [S EXCEPT !.favorites = deleteRow(@, rowIndex + 1)]
        added == [S EXCEPT !.favorites =
                               Append(@, [FavoriteID |-> generateId("FAV", S.idCounter),
                                          UserEmail |-> user.email,
                                          DocumentID |-> docId, DateAdded |-> t]),
                           !.idCounter = @ + 1]
    IN  IF ~user.isSignedIn THEN Result(S, Failure("User not authenticated"))
        ELSE IF ~hasSheet(S, "UserFavorites") THEN Result(S, NotInitialized)
        ELSE IF isFavorite(rowIndex)
        THEN Result(logActivity(removed, user, "Removed Favorite", docId,
                                <<"Removed from favorites">>, t),
                    [Ok EXCEPT !.favorited = FALSE])
        ELSE Result(logActivity(added, user, "Added Favorite", docId,
                                <<"Added to favorites">>, t),
                    [Ok EXCEPT !.favorited = TRUE])

\* getUserFavorites(): the document ids of the user's rows, in row order
getUserFavorites(S, email) ==
    LET data == S.favorites
        RECURSIVE idsFrom(_)
        idsFrom(r) ==
            IF r > Len(data) THEN <<>>
            ELSE IF data[r].UserEmail = email
            THEN <<data[r].DocumentID>> \o idsFrom(r + 1)
            ELSE idsFrom(r + 1)
    IN  IF ~hasSheet(S, "UserFavorites") \/ Len(data) <= 1 THEN <<>>
        ELSE idsFrom(2)

(***************************************************************************)
(* Sessions.                                                               *)
(***************************************************************************)
\* A slip: the loop stops above the first row below the titles.
expiredRowsBelowFirst(data, cutoffTime) ==
    descending({r \in 3..Len(data) : data[r].LastActivity < cutoffTime})

\* rowsToDelete of cleanupExpiredSessions: the rows whose lastActivity is
\* before the cutoff, collected bottom-up.
expiredRowsToDelete(data, cutoffTime) ==
    descending({r \in 2..Len(data) : data[r].LastActivity < cutoffTime})

\* cleanupExpiredSessions(sheet): the rows are deleted in the order they
\* were collected.
cleanupExpiredSessions(sheet, t) ==
    IF Len(sheet) <= 1 THEN sheet
    ELSE LET cutoffTime == t - sessionTimeout
         IN  deleteRows(sheet, expiredRowsToDelete(sheet, cutoffTime))

\* removeUserSession(sheet, email)
\* A slip: the 0-based index is taken for the row number.
removeSessionAtIndex(sheet, email) ==
    IF Len(sheet) <= 1 THEN sheet
    ELSE LET rowIndex == findIndex(sheet, "UserEmail", email)
         IN  IF rowIndex > 0 THEN deleteRow(sheet, rowIndex) ELSE sheet

removeUserSession(sheet, email) ==
    IF Len(sheet) <= 1 THEN sheet
    ELSE LET rowIndex == findIndex(sheet, "UserEmail", email)
         IN  IF rowIndex > 0 THEN deleteRow(sheet, rowIndex + 1) ELSE sheet

\* for (i = 1; ...) if (data[i][1] === email) { sessionRow = i + 1; break }
findSessionRow(data, email) ==
    LET hits == {r \in 2..Len(data) : data[r].UserEmail = email}
    IN  IF hits = {} THEN -1 ELSE CHOOSE r \in hits : \A q \in hits : r <= q

\* A slip: a login over a row keeps the login time of the row.
writeSessionKeepingLogin(sheet, sessionRow, sessionData) ==
    IF sessionRow > 0
    THEN [sheet EXCEPT ![sessionRow] =
                           [sessionData EXCEPT !.LoginTime = sheet[sessionRow].LoginTime]]
    ELSE Append(sheet, sessionData)

\* A slip: the heartbeat stamps the login time too.
touchSessionAndLogin(sheet, sessionRow, t) ==
    [sheet EXCEPT ![sessionRow].LoginTime = t,
                  ![sessionRow].LastActivity = t,
                  ![sessionRow].Status = "Online"]

\* getRange(sessionRow, 5).setValue(now); getRange(sessionRow, 7).setValue('Online')
touchSession(sheet, sessionRow, t) ==
    [sheet EXCEPT ![sessionRow].LastActivity = t,
                  ![sessionRow].Status = "Online"]

\* A slip: the session is appended also when the user has a row.
appendSession(sheet, sessionRow, sessionData) == Append(sheet, sessionData)

\* if (sessionRow > 0) setValues([sessionData]) else appendRow(sessionData)
writeSession(sheet, sessionRow, sessionData) ==
    IF sessionRow > 0
    THEN [sheet EXCEPT ![sessionRow] = sessionData]
    ELSE Append(sheet, sessionData)

\* The `user` of a call that passes none: null.
NullUser == [null |-> TRUE]

\* trackUserSession(user, action): `passed` is the user the client
\* passes, `email` the address Session.getActiveUser() reports.
trackUserSessionOf(S, passed, email, action, t) ==
    LET user == IF passed = NullUser THEN getCurrentUser(S.sessions, email)
                ELSE passed
        swept == cleanupExpiredSessions(S.sessions, t)
        sessionRow == findSessionRow(swept, user.email)
        sessionData ==
            [SessionID |-> generateId("SES", S.idCounter), UserEmail |-> user.email,
             UserName |-> user.name, LoginTime |-> t, LastActivity |-> t,
             Avatar |-> user.avatar, Status |-> "Online"]
    IN  IF ~user.isSignedIn THEN Result(S, Failure("User not authenticated"))
        ELSE IF ~hasSheet(S, "OnlineUsers") THEN Result(S, NotInitialized)
        ELSE IF action = "logout"
        THEN Result([S EXCEPT !.sessions = removeUserSession(swept, user.email)], Ok)
        ELSE IF action = "login" \/ sessionRow = -1
        THEN Result([S EXCEPT !.sessions =
                                  writeSession(swept, sessionRow, sessionData),
                              !.idCounter = @ + 1], Ok)
        ELSE Result([S EXCEPT !.sessions = touchSession(swept, sessionRow, t)], Ok)

\* trackUserSession(null, action)
trackUserSession(S, email, action, t) ==
    trackUserSessionOf(S, NullUser, email, action, t)

\* users.sort((a, b) => b.lastActivity - a.lastActivity): most recent
\* first, rows of equal lastActivity in their sheet order
RECURSIVE sortByLastActivity(_)
sortByLastActivity(users) ==
    IF users = <<>> THEN <<>>
    ELSE LET top == CHOOSE i \in 1..Len(users) :
                        /\ \A j \in 1..Len(users) :
                               users[j].lastActivity <= users[i].lastActivity
                        /\ \A j \in 1..(i - 1) :
                               users[j].lastActivity < users[i].lastActivity
         IN  <<users[top]>> \o sortByLastActivity(deleteRow(users, top))

\* getOnlineUsers()
getOnlineUsers(S, t) ==
    LET swept == cleanupExpiredSessions(S.sessions, t)
        online == SelectSeq(Tail(swept), LAMBDA row : row.Status = "Online")
        users == [i \in 1..Len(online) |->
                    [email |-> online[i].UserEmail, name |-> online[i].UserName,
                     loginTime |-> online[i].LoginTime,
                     lastActivity |-> online[i].LastActivity,
                     avatar |-> online[i].Avatar, status |-> online[i].Status]]
    IN  IF ~hasSheet(S, "OnlineUsers") \/ Len(S.sessions) <= 1 THEN Result(S, Ok)
        ELSE Result([S EXCEPT !.sessions = swept],
                    [Ok EXCEPT !.users = sortByLastActivity(users)])

(***************************************************************************)
(* Reads.  getDocuments, getCategories, getTags, getUserFavorites,         *)
(* getRecentActivity and getAnalyticsData return an object; the other      *)
(* operations return the text JSON.stringify makes of theirs, on which a   *)
(* property access yields undefined.                                       *)
(***************************************************************************)
recentActivityLimit == 20

\* JSON.stringify(value): a text that holds the value
stringify(value) == [json |-> value]

\* value[field] || orElse: undefined on a text
member(value, field, orElse) ==
    IF "json" \in DOMAIN value THEN orElse ELSE value[field]

\* sort((a, b) => new Date(b.LastModified) - new Date(a.LastModified)):
\* newest first, rows of one date in the order they had
RECURSIVE sortByLastModified(_)
sortByLastModified(docs) ==
    IF docs = <<>> THEN <<>>
    ELSE LET top == CHOOSE i \in 1..Len(docs) :
                        /\ \A j \in 1..Len(docs) :
                               docs[j].LastModified <= docs[i].LastModified
                        /\ \A j \in 1..(i - 1) :
                               docs[j].LastModified < docs[i].LastModified
         IN  <<docs[top]>> \o sortByLastModified(deleteRow(docs, top))

\* getDocuments() without filters, on a sheet whose first row holds the
\* titles: every row below the first as an object keyed by the titles.
getDocuments(S) ==
    IF ~hasSheet(S, "Documents") \/ Len(S.documents) <= 1
    THEN [success |-> TRUE, error |-> "", documents |-> <<>>]
    ELSE [success |-> TRUE, error |-> "",
          documents |-> sortByLastModified(Tail(S.documents))]

\* a.CategoryName.localeCompare(b.CategoryName) < 0, for the names in use
CategoryOrder == <<"Finance", "HR", "Legal">>

localeRank(categoryName) ==
    CHOOSE k \in 1..Len(CategoryOrder) : CategoryOrder[k] = categoryName

RECURSIVE sortByCategoryName(_)
sortByCategoryName(rows) ==
    IF rows = <<>> THEN <<>>
    ELSE LET top == CHOOSE i \in 1..Len(rows) :
                        /\ \A j \in 1..Len(rows) :
                               localeRank(rows[i].CategoryName)
                                   <= localeRank(rows[j].CategoryName)
                        /\ \A j \in 1..(i - 1) :
                               localeRank(rows[i].CategoryName)
                                   < localeRank(rows[j].CategoryName)
         IN  <<rows[top]>> \o sortByCategoryName(deleteRow(rows, top))

getCategories(S) ==
    IF ~hasSheet(S, "Categories") \/ Len(S.categories) <= 1
    THEN [success |-> TRUE, error |-> "", categories |-> <<>>]
    ELSE LET active == SelectSeq(Tail(S.categories), LAMBDA row : row.IsActive = TRUE)
             objects == [i \in 1..Len(active) |->
                           [CategoryID |-> active[i].CategoryID,
                            CategoryName |-> active[i].CategoryName,
                            CreatedBy |-> active[i].CreatedBy,
                            DocumentCount |-> active[i].DocumentCount]]
         IN  [success |-> TRUE, error |-> "",
              categories |-> sortByCategoryName(objects)]

\* tags.sort((a, b) => b.UsageCount - a.UsageCount)
RECURSIVE sortByUsageCount(_)
sortByUsageCount(rows) ==
    IF rows = <<>> THEN <<>>
    ELSE LET top == CHOOSE i \in 1..Len(rows) :
                        /\ \A j \in 1..Len(rows) :
                               rows[j].UsageCount <= rows[i].UsageCount
                        /\ \A j \in 1..(i - 1) :
                               rows[j].UsageCount < rows[i].UsageCount
         IN  <<rows[top]>> \o sortByUsageCount(deleteRow(rows, top))

getTags(S) ==
    IF ~hasSheet(S, "Tags") \/ Len(S.tags) <= 1
    THEN [success |-> TRUE, error |-> "", tags |-> <<>>]
    ELSE [success |-> TRUE, error |-> "", tags |-> sortByUsageCount(Tail(S.tags))]

\* getUserFavorites() as the object it returns
getUserFavoritesResponse(S, email) ==
    IF ~getCurrentUser(S.sessions, email).isSignedIn
    THEN [success |-> FALSE, error |-> "User not authenticated", favoriteIds |-> <<>>]
    ELSE [success |-> TRUE, error |-> "", favoriteIds |-> getUserFavorites(S, email)]

\* A slip: the rows are returned in the order of the sheet.
getRecentActivityInSheetOrder(S, limit) ==
    IF ~hasSheet(S, "ActivityLog") \/ Len(S.activityLog) <= 1
    THEN [success |-> TRUE, error |-> "", activities |-> <<>>]
    ELSE LET data == S.activityLog
             from == Max(1, Len(data) - limit) + 1
         IN  [success |-> TRUE, error |-> "",
              activities |-> SubSeq(data, from, Len(data))]

\* data.slice(Math.max(1, data.length - limit)).reverse()
getRecentActivity(S, limit) ==
    IF ~hasSheet(S, "ActivityLog") \/ Len(S.activityLog) <= 1
    THEN [success |-> TRUE, error |-> "", activities |-> <<>>]
    ELSE LET data == S.activityLog
             from == Max(1, Len(data) - limit) + 1
             kept == SubSeq(data, from, Len(data))
         IN  [success |-> TRUE, error |-> "",
              activities |-> [i \in 1..Len(kept) |-> kept[Len(kept) + 1 - i]]]

getAnalyticsData(S) ==
    IF ~hasSheet(S, "Analytics") \/ Len(S.analytics) <= 1
    THEN [success |-> TRUE, error |-> "", analytics |-> [totalViews |-> 0]]
    ELSE [success |-> TRUE, error |-> "",
          analytics |-> [totalViews |-> Len(S.analytics) - 1]]

\* recordDocumentView(docId): without the sheet Documents, docSheet is
\* null and getDataRange throws; the catch returns the error's text.
recordDocumentView(S, email, docId, t) ==
    LET user == getCurrentUser(S.sessions, email)
        docData == S.documents
        docRow == findIndex(docData, "DocumentID", docId)
        docName == IF docRow >= 0 THEN docData[docRow + 1].DocumentName
                   ELSE "Unknown Document"
        viewId == generateId("VIEW", S.idCounter)
    IN  IF ~user.isSignedIn THEN Result(S, Failure("User not authenticated"))
        ELSE IF ~hasSheet(S, "Analytics") THEN Result(S, NotInitialized)
        ELSE IF ~hasSheet(S, "Documents") THEN Result(S, Failure("TypeError"))
        ELSE Result([S EXCEPT !.analytics =
                                   Append(@, [ViewID |-> viewId, DocumentID |-> docId,
                                              UserEmail |-> user.email,
                                              Timestamp |-> t,
                                              DocumentName |-> docName]),
                               !.idCounter = @ + 1], Ok)

\* getInitialData(): the reads run one after the other; getOnlineUsers
\* sweeps the sessions and returns a text.
getInitialData(S, email, t) ==
    LET user == getCurrentUser(S.sessions, email)
        online == getOnlineUsers(S, t)
        response ==
            [success |-> TRUE, error |-> "", favorited |-> FALSE, user |-> user,
             documents |-> member(getDocuments(S), "documents", <<>>),
             categories |-> member(getCategories(S), "categories", <<>>),
             tags |-> member(getTags(S), "tags", <<>>),
             favorites |-> member(getUserFavoritesResponse(S, email),
                                  "favoriteIds", <<>>),
             recentActivity |-> member(getRecentActivity(S, recentActivityLimit),
                                       "activities", <<>>),
             onlineUsers |-> member(stringify(online.ret), "users", <<>>),
             analytics |-> member(getAnalyticsData(online.S), "analytics",
                                  [totalViews |-> 0])]
    IN  IF ~user.isSignedIn
        THEN Result(S, [success |-> FALSE, error |-> "User not authenticated",
                        favorited |-> FALSE])
        ELSE Result(online.S, response)

(***************************************************************************)
(* The state machine.                                                      *)
(***************************************************************************)
\* The Tags sheet as set up: one row per tag of TagNames, unused.
tagRows ==
    [k \in 1..Len(TagNames) |->
        [TagID |-> <<"TAG", k>>, TagName |-> TagNames[k],
         CreatedBy |-> <<"setup">>, UsageCount |-> 0]]

\* The (userEmail, documentId) pairs of the favorite rows.
favoritePairs(sheet) ==
    {<<sheet[r].UserEmail, sheet[r].DocumentID>> : r \in 2..Len(sheet)}

\* lastActivity < cutoffTime, at clock t
isExpired(row, t) == row.LastActivity < t - sessionTimeout

\* The users with an expired session row at clock t.
expiredUsers(sheet, t) ==
    {sheet[r].UserEmail : r \in {q \in 2..Len(sheet) : isExpired(sheet[q], t)}}

\* The record of a request: the operation, who asked, the document id
\* passed, whether it succeeded and the `favorited` it returned; for a
\* bulk request the list of ids passed and its summary; for a
\* getRecentActivity the entries it returned; for a
\* toggleFavorite the favorite pairs it found, for a request that sweeps
\* the sessions the users whose rows had expired.
Request(op, email, docId, ret) ==
    [op |-> op, user |-> email,
     docId |-> IF op \in {"bulkArchiveDocuments", "bulkRestoreDocuments"}
               THEN NoId ELSE docId,
     docIds |-> IF op \in {"bulkArchiveDocuments", "bulkRestoreDocuments"}
                THEN docId ELSE <<>>,
     success |-> ret.success,
     error |-> ret.error, favorited |-> ret.favorited,
     summary |-> IF op \in {"bulkArchiveDocuments", "bulkRestoreDocuments"}
                 THEN ret.summary ELSE <<>>,
     activities |-> IF op = "getRecentActivity" THEN ret.activities ELSE <<>>,
     before |-> IF op = "toggleFavorite" THEN favoritePairs(favorites) ELSE {},
     expired |-> IF op \in {"login", "heartbeat", "logout", "getOnlineUsers"}
                 THEN expiredUsers(sessions, now) ELSE {}]

NoRequest ==
    [op |-> "", user |-> NoEmail, docId |-> NoId, docIds |-> <<>>,
     success |-> FALSE,
     error |-> "", favorited |-> FALSE, summary |-> <<>>,
     activities |-> <<>>, before |-> {}, expired |-> {}]

Init ==
    /\ documents = <<DocumentsTitle>>
    /\ categories = <<CategoriesTitle>>
    /\ tags = <<TagsTitle>> \o tagRows
    /\ favorites = <<FavoritesTitle>>
    /\ sessions = <<SessionsTitle>>
    /\ activityLog = <<ActivityTitle>>
    /\ analytics = <<AnalyticsTitle>>
    /\ sheets = SheetNames
    /\ logFails = FALSE
    /\ now = 0
    /\ idCounter = 0
    /\ requests = 0
    /\ last = NoRequest
    /\ calls = <<>>

\* A request leaves the store of `result` behind.
Commit(result, op, email, docId) ==
    /\ requests < MaxRequests
    /\ requests' = requests + 1
    /\ documents' = result.S.documents
    /\ categories' = result.S.categories
    /\ tags' = result.S.tags
    /\ favorites' = result.S.favorites
    /\ sessions' = result.S.sessions
    /\ activityLog' = result.S.activityLog
    /\ analytics' = result.S.analytics
    /\ sheets' = result.S.sheets
    /\ logFails' = result.S.logFails
    /\ idCounter' = result.S.idCounter
    /\ last' = Request(op, email, docId, result.ret)
    /\ UNCHANGED <<now, calls>>

AddDocument(email, documentData) ==
    Commit(addDocument(Store, email, documentData, now), "addDocument", email, NoId)

UpdateDocument(email, docId, updates) ==
    Commit(updateDocument(Store, email, docId, updates, now),
           "updateDocument", email, docId)

ArchiveDocument(email, docId) ==
    Commit(archiveDocument(Store, email, docId, now), "archiveDocument", email, docId)

RestoreDocument(email, docId) ==
    Commit(restoreDocument(Store, email, docId, now), "restoreDocument", email, docId)

BulkArchiveDocuments(email, docIds) ==
    Commit(bulkArchiveDocuments(Store, email, docIds, now),
           "bulkArchiveDocuments", email, docIds)

BulkRestoreDocuments(email, docIds) ==
    Commit(bulkRestoreDocuments(Store, email, docIds, now),
           "bulkRestoreDocuments", email, docIds)

DeleteDocument(email, docId) ==
    Commit(deleteDocument(Store, email, docId, now), "deleteDocument", email, docId)

AddCategory(email, categoryName) ==
    Commit(addCategory(Store, email, categoryName, now), "addCategory", email, NoId)

ToggleFavorite(email, docId) ==
    Commit(toggleFavorite(Store, email, docId, now), "toggleFavorite", email, docId)

TrackUserSession(email, action) ==
    Commit(trackUserSession(Store, email, action, now), action, email, NoId)

TrackUserSessionOf(passed, email, action) ==
    Commit(trackUserSessionOf(Store, passed, email, action, now), action, email,
           NoId)

GetOnlineUsers(email) ==
    Commit(getOnlineUsers(Store, now), "getOnlineUsers", email, NoId)

\* What a read returns, as a request records it.
Returned(response) ==
    [Ok EXCEPT !.success = response.success, !.error = response.error]

GetDocuments(email) ==
    Commit(Result(Store, Returned(getDocuments(Store))), "getDocuments", email, NoId)

GetCategories(email) ==
    Commit(Result(Store, Returned(getCategories(Store))), "getCategories", email, NoId)

GetTags(email) ==
    Commit(Result(Store, Returned(getTags(Store))), "getTags", email, NoId)

GetUserFavorites(email) ==
    Commit(Result(Store, Returned(getUserFavoritesResponse(Store, email))),
           "getUserFavorites", email, NoId)

GetRecentActivity(email, limit) ==
    LET response == getRecentActivity(Store, limit)
    IN  Commit(Result(Store, [Returned(response) EXCEPT
                                 !.activities = response.activities]),
               "getRecentActivity", email, NoId)

GetAnalyticsData(email) ==
    Commit(Result(Store, Returned(getAnalyticsData(Store))),
           "getAnalyticsData", email, NoId)

RecordDocumentView(email, docId) ==
    Commit(recordDocumentView(Store, email, docId, now), "recordDocumentView",
           email, docId)

GetInitialData(email) ==
    Commit(getInitialData(Store, email, now), "getInitialData", email, NoId)

\* Time passes between requests: a minute, or a whole timeout.
ticksUsed(t) == (t \div sessionTimeout) + (t % sessionTimeout)

Tick ==
    /\ \E d \in {1, sessionTimeout} :
          /\ ticksUsed(now + d) <= MaxTicks
          /\ now' = now + d
    /\ UNCHANGED <<store, idCounter, requests, last, calls>>

(***************************************************************************)
(* What requests pass in.                                                  *)
(***************************************************************************)
\* Document ids a client can name: those of the documents on the sheet
\* and one that is on no row.
DocIdArgs ==
    {documents[r].DocumentID :
        r \in {q \in 1..Len(documents) : documents[q].DocumentID[1] = "DOC"}}
    \cup {<<"DOC", 0>>}

CategoryArgs == {"Finance", "HR"}

UrlArgs == {"u1", "u2"}

\* '' and 'a, b'
TagsArgs == {<<>>, <<"a", ",", " ", "b">>}

DocumentArgs ==
    [DocumentName : {"Q1"}, GoogleDriveURL : UrlArgs, Category : CategoryArgs,
     Tags : TagsArgs]
    \cup {[DocumentName |-> "", GoogleDriveURL |-> "u1", Category |-> "HR",
           Tags |-> <<>>]}

UpdateArgs ==
    {<<<<"Category", c>>>> : c \in CategoryArgs}
    \cup {<<<<"Tags", <<"b">>>>>>, <<<<"GoogleDriveURL", "u1">>>>,
          <<<<"Category", "HR">>, <<"Tags", <<>>>>>>}

SessionActions == {"login", "heartbeat", "logout"}

DocumentsNext ==
    \/ \E email \in {Ann}, categoryName \in CategoryArgs :
          AddCategory(email, categoryName)
    \/ \E email \in {Ann}, documentData \in DocumentArgs :
          AddDocument(email, documentData)
    \/ \E email \in {Ann}, docId \in DocIdArgs, updates \in UpdateArgs :
          UpdateDocument(email, docId, updates)
    \/ \E email \in {Ann}, docId \in DocIdArgs :
          ArchiveDocument(email, docId)
    \/ \E email \in {Ann}, docId \in DocIdArgs :
          RestoreDocument(email, docId)
    \/ \E email \in {Ann}, docId \in DocIdArgs :
          DeleteDocument(email, docId)

SpecDocuments == Init /\ [][DocumentsNext]_vars

\* Requests on favorites: documents are added, favorited and deleted.
FavoriteDocumentArgs ==
    [DocumentName : {"Q1"}, GoogleDriveURL : UrlArgs, Category : {"HR"},
     Tags : {<<>>}]

FavoritesNext ==
    \/ \E email \in Users, documentData \in FavoriteDocumentArgs :
          AddDocument(email, documentData)
    \/ \E email \in Principals, docId \in DocIdArgs :
          ToggleFavorite(email, docId)
    \/ \E email \in Principals, docId \in DocIdArgs :
          DeleteDocument(email, docId)

SpecFavorites == Init /\ [][FavoritesNext]_vars

\* Requests on sessions, with time passing between them.
SessionsNext ==
    \/ \E email \in Principals, action \in SessionActions :
          TrackUserSession(email, action)
    \/ \E email \in Users : GetOnlineUsers(email)
    \/ Tick

SpecSessions == Init /\ [][SessionsNext]_vars

\* Requests that move documents between categories, with time passing,
\* on a store where three categories and then two documents have been
\* added.
CategoryMoveArgs == {"Finance", "HR", "Legal"}

CategoryDocumentArgs ==
    <<[DocumentName |-> "Q1", GoogleDriveURL |-> "u1", Category |-> "Finance",
       Tags |-> <<>>],
      [DocumentName |-> "Q2", GoogleDriveURL |-> "u2", Category |-> "Legal",
       Tags |-> <<>>]>>

CategoryUpdateArgs == {<<<<"Category", c>>>> : c \in {"Finance", "HR"}}

InitStore ==
    [documents |-> <<DocumentsTitle>>, categories |-> <<CategoriesTitle>>,
     tags |-> <<TagsTitle>> \o tagRows, favorites |-> <<FavoritesTitle>>,
     sessions |-> <<SessionsTitle>>, activityLog |-> <<ActivityTitle>>,
     analytics |-> <<AnalyticsTitle>>, sheets |-> SheetNames,
     logFails |-> FALSE, idCounter |-> 0]

WithCategories ==
    LET categorised ==
            addCategory(addCategory(addCategory(InitStore, Ann, "Finance", 0).S,
                                    Ann, "HR", 0).S,
                        Ann, "Legal", 0).S
    IN  addDocument(addDocument(categorised, Ann, CategoryDocumentArgs[1], 0).S,
                    Ann, CategoryDocumentArgs[2], 0).S

InitCategories ==
    /\ documents = WithCategories.documents
    /\ categories = WithCategories.categories
    /\ tags = WithCategories.tags
    /\ favorites = WithCategories.favorites
    /\ sessions = WithCategories.sessions
    /\ activityLog = WithCategories.activityLog
    /\ analytics = WithCategories.analytics
    /\ sheets = WithCategories.sheets
    /\ logFails = WithCategories.logFails
    /\ idCounter = WithCategories.idCounter
    /\ now = 0
    /\ requests = 0
    /\ last = NoRequest
    /\ calls = <<>>

\* The id of the first of the two documents.
MovedDocIdArgs == {WithCategories.documents[2].DocumentID}

CategoriesNext ==
    \/ \E email \in {Ann}, docId \in MovedDocIdArgs, updates \in CategoryUpdateArgs :
          UpdateDocument(email, docId, updates)
    \/ Tick

SpecCategories == InitCategories /\ [][CategoriesNext]_vars

\* The requests that log an activity.
ActivityNext ==
    \/ \E email \in {Ann}, categoryName \in CategoryArgs :
          AddCategory(email, categoryName)
    \/ \E email \in {Ann}, documentData \in FavoriteDocumentArgs :
          AddDocument(email, documentData)
    \/ \E email \in {Ann}, docId \in DocIdArgs, updates \in CategoryUpdateArgs :
          UpdateDocument(email, docId, updates)
    \/ \E email \in {Ann}, docId \in DocIdArgs :
          ArchiveDocument(email, docId)
    \/ \E email \in {Ann}, docId \in DocIdArgs :
          RestoreDocument(email, docId)
    \/ \E email \in {Ann}, docId \in DocIdArgs :
          DeleteDocument(email, docId)
    \/ \E email \in {Ann}, docId \in DocIdArgs :
          ToggleFavorite(email, docId)

SpecActivity == Init /\ [][ActivityNext]_vars

\* The same requests on a store whose activity log cannot be written:
\* the sheet ActivityLog does not exist, or appendRow on it throws.
InitNoLog ==
    /\ documents = <<DocumentsTitle>>
    /\ categories = <<CategoriesTitle>>
    /\ tags = <<TagsTitle>> \o tagRows
    /\ favorites = <<FavoritesTitle>>
    /\ sessions = <<SessionsTitle>>
    /\ analytics = <<AnalyticsTitle>>
    /\ \/ /\ sheets = SheetNames \ {"ActivityLog"}
          /\ activityLog = <<>>
          /\ logFails = FALSE
       \/ /\ sheets = SheetNames
          /\ activityLog = <<ActivityTitle>>
          /\ logFails = TRUE
    /\ now = 0
    /\ idCounter = 0
    /\ requests = 0
    /\ last = NoRequest
    /\ calls = <<>>

SpecNoLog == InitNoLog /\ [][ActivityNext]_vars

\* Every public operation, on a spreadsheet that lacks one of the sheets.
rowsIfPresent(name, rows) == IF name \in sheets THEN rows ELSE <<>>

InitMissing ==
    /\ \E name \in SheetNames : sheets = SheetNames \ {name}
    /\ documents = rowsIfPresent("Documents", <<DocumentsTitle>>)
    /\ categories = rowsIfPresent("Categories", <<CategoriesTitle>>)
    /\ tags = rowsIfPresent("Tags", <<TagsTitle>> \o tagRows)
    /\ favorites = rowsIfPresent("UserFavorites", <<FavoritesTitle>>)
    /\ sessions = rowsIfPresent("OnlineUsers", <<SessionsTitle>>)
    /\ activityLog = rowsIfPresent("ActivityLog", <<ActivityTitle>>)
    /\ analytics = rowsIfPresent("Analytics", <<AnalyticsTitle>>)
    /\ logFails = FALSE
    /\ now = 0
    /\ idCounter = 0
    /\ requests = 0
    /\ last = NoRequest
    /\ calls = <<>>

MissingNext ==
    \/ \E email \in {Ann} : GetDocuments(email)
    \/ \E email \in {Ann}, documentData \in FavoriteDocumentArgs :
          AddDocument(email, documentData)
    \/ \E email \in {Ann}, docId \in DocIdArgs, updates \in CategoryUpdateArgs :
          UpdateDocument(email, docId, updates)
    \/ \E email \in {Ann}, docId \in DocIdArgs : DeleteDocument(email, docId)
    \/ \E email \in {Ann} : GetCategories(email)
    \/ \E email \in {Ann}, categoryName \in {"HR"} :
          AddCategory(email, categoryName)
    \/ \E email \in {Ann} : GetTags(email)
    \/ \E email \in {Ann} : GetUserFavorites(email)
    \/ \E email \in {Ann}, docId \in DocIdArgs : ToggleFavorite(email, docId)
    \/ \E email \in {Ann}, action \in SessionActions :
          TrackUserSession(email, action)
    \/ \E email \in {Ann} : GetOnlineUsers(email)
    \/ \E email \in {Ann}, limit \in {recentActivityLimit} :
          GetRecentActivity(email, limit)
    \/ \E email \in {Ann}, docId \in DocIdArgs : RecordDocumentView(email, docId)
    \/ \E email \in {Ann} : GetAnalyticsData(email)

SpecMissing == InitMissing /\ [][MissingNext]_vars

\* The bootstrap read, after logins and added documents, with time passing.
BootstrapNext ==
    \/ \E email \in Users : TrackUserSession(email, "login")
    \/ \E email \in {Ann}, documentData \in FavoriteDocumentArgs :
          AddDocument(email, documentData)
    \/ \E email \in Principals : GetInitialData(email)
    \/ Tick

SpecBootstrap == Init /\ [][BootstrapNext]_vars

\* The text of the title cell of the id column, passed as a document id.
TitleIdArgs == {DocumentsTitle.DocumentID}

\* Requests on documents whose id is that of a document, of none, or the
\* text of the title cell.
TitleIdNext ==
    \/ \E email \in {Ann}, documentData \in FavoriteDocumentArgs :
          AddDocument(email, documentData)
    \/ \E email \in {Ann}, docId \in DocIdArgs \cup TitleIdArgs,
          updates \in CategoryUpdateArgs :
          UpdateDocument(email, docId, updates)
    \/ \E email \in {Ann}, docId \in DocIdArgs \cup TitleIdArgs :
          DeleteDocument(email, docId)

SpecTitleId == Init /\ [][TitleIdNext]_vars

\* The lists of ids a bulk request passes: up to MaxBulk ids of
\* DocIdArgs, so with ids on no row and with an id named twice.
MaxBulk == 2

BulkIdArgs ==
    UNION {[1..n -> DocIdArgs] : n \in 0..MaxBulk}

BulkNext ==
    \/ \E email \in {Ann}, documentData \in FavoriteDocumentArgs :
          AddDocument(email, documentData)
    \/ \E email \in {Ann}, docIds \in BulkIdArgs :
          BulkArchiveDocuments(email, docIds)
    \/ \E email \in {Ann}, docIds \in BulkIdArgs :
          BulkRestoreDocuments(email, docIds)

SpecBulk == Init /\ [][BulkNext]_vars

\* Updates of one or two fields, and of none, that change a stored value
\* or repeat it: documents are added named Q1, in HR, Active.
StampUpdateArgs ==
    {<<>>,
     <<<<"Category", "HR">>>>,
     <<<<"Category", "Finance">>>>,
     <<<<"Category", "HR">>, <<"Status", "Active">>>>,
     <<<<"DocumentName", "Q2">>, <<"Category", "Finance">>>>}

StampNext ==
    \/ \E email \in {Ann}, documentData \in FavoriteDocumentArgs :
          AddDocument(email, documentData)
    \/ \E email \in {Ann}, docId \in DocIdArgs, updates \in StampUpdateArgs :
          UpdateDocument(email, docId, updates)
    \/ Tick

SpecStamp == Init /\ [][StampNext]_vars

\* The limits a client passes to getRecentActivity: none of the entries,
\* fewer than the log can hold here, and the default.
LimitArgs == {0, 1, 2, recentActivityLimit}

\* Requests that log, and the read of the log.
RecentNext ==
    \/ \E email \in {Ann}, documentData \in FavoriteDocumentArgs :
          AddDocument(email, documentData)
    \/ \E email \in {Ann}, docId \in DocIdArgs, updates \in CategoryUpdateArgs :
          UpdateDocument(email, docId, updates)
    \/ \E email \in {Ann}, limit \in LimitArgs :
          GetRecentActivity(email, limit)

SpecRecent == Init /\ [][RecentNext]_vars

(***************************************************************************)
(* Requests served at the same time.  Apps Script runs the calls of two   *)
(* clients concurrently and no function of Code.js takes a lock, so the   *)
(* Spreadsheet calls of one request interleave with those of another.     *)
(* A request served step by step has a record in `calls`: its position    *)
(* `pc` and the values of its local variables.                            *)
(***************************************************************************)
\* at most MaxCalls requests are served step by step in a run
MaxCalls == 2

\* The cells of a row of Documents below the last row: empty.
BlankDocument ==
    [DocumentID |-> NoId, DocumentName |-> "", GoogleDriveURL |-> "",
     Category |-> "", CreatedBy |-> <<>>, Tags |-> <<>>,
     DateAdded |-> TitleCell, LastModified |-> TitleCell, Status |-> ""]

\* sheet.getRange(row, column).setValue(value): the cell of the row the
\* sheet has at `row` now; below the last row the sheet grows by empty rows.
setValue(sheet, row, field, value, blank) ==
    IF row <= Len(sheet) THEN [sheet EXCEPT ![row][field] = value]
    ELSE sheet \o [i \in 1..(row - Len(sheet) - 1) |-> blank]
               \o <<[blank EXCEPT ![field] = value]>>

\* The step of call c leaves its record as `record`.
Stepped(c, record) == calls' = [calls EXCEPT ![c] = record]

\* updateDocument, lines 249-266: the user, the sheet, the rows read and
\* the row looked up.  A request that fails here is served at once.
BeginUpdateDocument(email, docId, updates) ==
    LET user == getCurrentUser(sessions, email)
        data == documents
        rowIndex == findIndex(data, "DocumentID", docId)
    IN  IF ~user.isSignedIn \/ ~hasSheet(Store, "Documents") \/ rowIndex = -1
        THEN Commit(updateDocument(Store, email, docId, updates, now),
                    "updateDocument", email, docId)
        ELSE /\ requests < MaxRequests
             /\ Len(calls) < MaxCalls
             /\ requests' = requests + 1
             /\ calls' = Append(calls,
                    [op |-> "updateDocument", pc |-> "write", email |-> email,
                     user |-> user, docId |-> docId, updates |-> updates,
                     pending |-> updates, data |-> data, rowIndex |-> rowIndex,
                     changes |-> <<>>])
             /\ UNCHANGED <<store, idCounter, now, last>>

\* One round of Object.keys(updates).forEach, lines 272-278: the field is
\* compared with the rows as read, and written at the row as looked up.
UpdateSetValue(c) ==
    LET call == calls[c]
        field == Head(call.pending)[1]
        value == Head(call.pending)[2]
        row == call.rowIndex + 1
        differs == /\ hasColumn(call.data[1], field)
                   /\ call.data[row][field] # value
    IN  /\ call.op = "updateDocument" /\ call.pc = "write"
        /\ call.pending # <<>>
        /\ documents' = IF differs
                        THEN setValue(documents, row, field, value, BlankDocument)
                        ELSE documents
        /\ Stepped(c, [call EXCEPT
                          !.pending = Tail(@),
                          !.changes = IF differs
                                      THEN Append(@, changeText(field)) ELSE @])
        /\ UNCHANGED <<categories, tags, favorites, sessions, activityLog,
                       analytics, sheets, logFails, now, idCounter, requests,
                       last>>

\* Line 280: LastModified is written at the row as looked up.
UpdateStamp(c) ==
    LET call == calls[c]
    IN  /\ call.op = "updateDocument" /\ call.pc = "write"
        /\ call.pending = <<>>
        /\ documents' = setValue(documents, call.rowIndex + 1, "LastModified",
                                 now, BlankDocument)
        /\ Stepped(c, [call EXCEPT !.pc = "counts"])
        /\ UNCHANGED <<categories, tags, favorites, sessions, activityLog,
                       analytics, sheets, logFails, now, idCounter, requests,
                       last>>

\* Lines 282-293: the counts, the activity entry and the response, with
\* oldCategory and oldTags of the rows as read.
UpdateReturn(c) ==
    LET call == calls[c]
        old == call.data[call.rowIndex + 1]
        newCategory == valueOf(call.updates, "Category", Undefined)
        newTags == valueOf(call.updates, "Tags", UndefinedText)
        counted ==
            IF newCategory # Undefined /\ newCategory # ""
               /\ newCategory # old.Category
            THEN updateCategoryCount(updateCategoryCount(Store, old.Category, -1),
                                     newCategory, 1)
            ELSE Store
        tagged ==
            IF newTags # old.Tags
            THEN updateTagCounts(updateTagCounts(counted, old.Tags, -1), newTags, 1)
            ELSE counted
        logged ==
            IF call.changes # <<>>
            THEN logActivity(tagged, call.user, "Updated Document", call.docId,
                             call.changes, now)
            ELSE tagged
    IN  /\ call.op = "updateDocument" /\ call.pc = "counts"
        /\ categories' = logged.categories
        /\ tags' = logged.tags
        /\ activityLog' = logged.activityLog
        /\ idCounter' = logged.idCounter
        /\ last' = Request("updateDocument", call.email, call.docId, Ok)
        /\ Stepped(c, [call EXCEPT !.pc = "done"])
        /\ UNCHANGED <<documents, favorites, sessions, analytics, sheets,
                       logFails, now, requests>>

\* Three documents, added one after the other.
StaleRowDocumentArgs ==
    <<[DocumentName |-> "Q1", GoogleDriveURL |-> "u1", Category |-> "HR",
       Tags |-> <<>>],
      [DocumentName |-> "Q2", GoogleDriveURL |-> "u2", Category |-> "HR",
       Tags |-> <<>>],
      [DocumentName |-> "Q3", GoogleDriveURL |-> "u3", Category |-> "HR",
       Tags |-> <<>>]>>

WithThreeDocuments ==
    addDocument(addDocument(addDocument(InitStore, Ann, StaleRowDocumentArgs[1], 0).S,
                            Ann, StaleRowDocumentArgs[2], 0).S,
                Ann, StaleRowDocumentArgs[3], 0).S

InitStaleRow ==
    /\ documents = WithThreeDocuments.documents
    /\ categories = WithThreeDocuments.categories
    /\ tags = WithThreeDocuments.tags
    /\ favorites = WithThreeDocuments.favorites
    /\ sessions = WithThreeDocuments.sessions
    /\ activityLog = WithThreeDocuments.activityLog
    /\ analytics = WithThreeDocuments.analytics
    /\ sheets = WithThreeDocuments.sheets
    /\ logFails = WithThreeDocuments.logFails
    /\ idCounter = WithThreeDocuments.idCounter
    /\ now = 0
    /\ requests = 0
    /\ last = NoRequest
    /\ calls = <<>>

\* updateDocument served step by step while deleteDocument is served.
StaleRowNext ==
    \/ \E email \in {Ann}, docId \in DocIdArgs, updates \in CategoryUpdateArgs :
          BeginUpdateDocument(email, docId, updates)
    \/ \E c \in 1..Len(calls) : UpdateSetValue(c)
    \/ \E c \in 1..Len(calls) : UpdateStamp(c)
    \/ \E c \in 1..Len(calls) : UpdateReturn(c)
    \/ \E email \in {Bob}, docId \in DocIdArgs : DeleteDocument(email, docId)

SpecStaleRow == InitStaleRow /\ [][StaleRowNext]_vars

\* addDocument, lines 213-228: the user, the required fields, the urls
\* read by isDuplicateURL and the sheet.  A request that fails here is
\* served at once.
BeginAddDocument(email, documentData) ==
    LET user == getCurrentUser(sessions, email)
    IN  IF \/ ~user.isSignedIn
           \/ documentData.DocumentName = "" \/ documentData.GoogleDriveURL = ""
           \/ documentData.Category = ""
           \/ isDuplicateURL(Store, documentData.GoogleDriveURL)
           \/ ~hasSheet(Store, "Documents")
        THEN Commit(addDocument(Store, email, documentData, now),
                    "addDocument", email, NoId)
        ELSE /\ requests < MaxRequests
             /\ Len(calls) < MaxCalls
             /\ requests' = requests + 1
             /\ calls' = Append(calls,
                    [op |-> "addDocument", pc |-> "append", email |-> email,
                     user |-> user, documentData |-> documentData,
                     docId |-> NoId, rowIndex |-> -1, currentCount |-> 0,
                     wrote |-> FALSE, writesSeen |-> 0])
             /\ UNCHANGED <<store, idCounter, now, last>>

\* Lines 230-234: the id is generated and the row appended.
AddAppendRow(c) ==
    LET call == calls[c]
        docId == generateId("DOC", idCounter)
        newDocument ==
            [DocumentID |-> docId,
             DocumentName |-> call.documentData.DocumentName,
             GoogleDriveURL |-> call.documentData.GoogleDriveURL,
             Category |-> call.documentData.Category,
             CreatedBy |-> call.user.email, Tags |-> call.documentData.Tags,
             DateAdded |-> now, LastModified |-> now, Status |-> "Active"]
    IN  /\ call.op = "addDocument" /\ call.pc = "append"
        /\ documents' = Append(documents, newDocument)
        /\ idCounter' = idCounter + 1
        /\ Stepped(c, [call EXCEPT !.pc = "log", !.docId = docId])
        /\ UNCHANGED <<categories, tags, favorites, sessions, activityLog,
                       analytics, sheets, logFails, now, requests, last>>

\* Line 236: logActivity.
AddLogActivity(c) ==
    LET call == calls[c]
        logged == logActivity(Store, call.user, "Created Document", call.docId,
                              <<"Created", call.documentData.DocumentName>>, now)
    IN  /\ call.op = "addDocument" /\ call.pc = "log"
        /\ activityLog' = logged.activityLog
        /\ idCounter' = logged.idCounter
        /\ Stepped(c, [call EXCEPT !.pc = "readCount"])
        /\ UNCHANGED <<documents, categories, tags, favorites, sessions,
                       analytics, sheets, logFails, now, requests, last>>

\* The calls that have written a category count.
countWriters == {d \in 1..Len(calls) : calls[d].op = "addDocument" /\ calls[d].wrote}

\* updateCategoryCount, lines 721-726: the rows of Categories are read,
\* the row looked up and its count parsed.  The record notes how many
\* calls had written a count by then.
AddReadCount(c) ==
    LET call == calls[c]
        data == categories
        rowIndex == findIndex(data, "CategoryName", call.documentData.Category)
    IN  /\ call.op = "addDocument" /\ call.pc = "readCount"
        /\ IF hasSheet(Store, "Categories") /\ rowIndex > 0
           THEN Stepped(c, [call EXCEPT
                              !.pc = "writeCount", !.rowIndex = rowIndex,
                              !.currentCount = data[rowIndex + 1].DocumentCount,
                              !.writesSeen = Cardinality(countWriters)])
           ELSE Stepped(c, [call EXCEPT !.pc = "tags"])
        /\ UNCHANGED <<store, idCounter, now, requests, last>>

\* A slip: the count is read again when it is written.
countAfterFresh(sheet, rowIndex, currentCount, delta) ==
    Max(0, sheet[rowIndex + 1].DocumentCount + delta)

\* Math.max(0, currentCount + delta), of the count as read
countAfter(sheet, rowIndex, currentCount, delta) == Max(0, currentCount + delta)

\* updateCategoryCount, line 727: the count as read, plus delta, is
\* written at the row as looked up.
AddWriteCount(c) ==
    LET call == calls[c]
    IN  /\ call.op = "addDocument" /\ call.pc = "writeCount"
        /\ categories' =
              setValue(categories, call.rowIndex + 1, "DocumentCount",
                       countAfter(categories, call.rowIndex, call.currentCount, 1),
                       CategoriesTitle)
        /\ Stepped(c, [call EXCEPT !.pc = "tags", !.wrote = TRUE])
        /\ UNCHANGED <<documents, tags, favorites, sessions, activityLog,
                       analytics, sheets, logFails, now, idCounter, requests,
                       last>>

\* Lines 238-240: the tag counts and the response.
AddReturn(c) ==
    LET call == calls[c]
        tagged == IF call.documentData.Tags # <<>>
                  THEN updateTagCounts(Store, call.documentData.Tags, 1)
                  ELSE Store
    IN  /\ call.op = "addDocument" /\ call.pc = "tags"
        /\ tags' = tagged.tags
        /\ last' = Request("addDocument", call.email, NoId,
                           [Ok EXCEPT !.id = call.docId])
        /\ Stepped(c, [call EXCEPT !.pc = "done"])
        /\ UNCHANGED <<documents, categories, favorites, sessions, activityLog,
                       analytics, sheets, logFails, now, idCounter, requests>>

\* The category HR, without documents.
WithCategory == addCategory(InitStore, Ann, "HR", 0).S

InitLostUpdate ==
    /\ documents = WithCategory.documents
    /\ categories = WithCategory.categories
    /\ tags = WithCategory.tags
    /\ favorites = WithCategory.favorites
    /\ sessions = WithCategory.sessions
    /\ activityLog = WithCategory.activityLog
    /\ analytics = WithCategory.analytics
    /\ sheets = WithCategory.sheets
    /\ logFails = WithCategory.logFails
    /\ idCounter = WithCategory.idCounter
    /\ now = 0
    /\ requests = 0
    /\ last = NoRequest
    /\ calls = <<>>

\* addDocument requests served step by step, at the same time.
LostUpdateNext ==
    \/ \E email \in Users, documentData \in FavoriteDocumentArgs :
          BeginAddDocument(email, documentData)
    \/ \E c \in 1..Len(calls) : AddAppendRow(c)
    \/ \E c \in 1..Len(calls) : AddLogActivity(c)
    \/ \E c \in 1..Len(calls) : AddReadCount(c)
    \/ \E c \in 1..Len(calls) : AddWriteCount(c)
    \/ \E c \in 1..Len(calls) : AddReturn(c)

SpecLostUpdate == InitLostUpdate /\ [][LostUpdateNext]_vars

\* The `user` a client passes to trackUserSession: none, what
\* getCurrentUser returns when nobody is signed in, and an object that
\* says a user is signed in.
PassedUserArgs ==
    {NullUser, getCurrentUser(<<SessionsTitle>>, NoEmail),
     getCurrentUser(<<SessionsTitle>>, Ann)}

\* The mutating operations.
MutatingOps ==
    {"addDocument", "updateDocument", "archiveDocument", "restoreDocument",
     "deleteDocument", "bulkArchiveDocuments", "bulkRestoreDocuments",
     "addCategory", "toggleFavorite", "recordDocumentView"} \cup SessionActions

\* Two ids: of a document and of none.
AnonymousBulkIdArgs == {<<docId, <<"DOC", 0>>>> : docId \in DocIdArgs}

\* The mutating operations invoked while Session.getActiveUser() reports
\* no address, on a store where three documents have been added.
AnonymousNext ==
    \/ \E email \in {NoEmail}, documentData \in FavoriteDocumentArgs :
          AddDocument(email, documentData)
    \/ \E email \in {NoEmail}, docId \in DocIdArgs, updates \in CategoryUpdateArgs :
          UpdateDocument(email, docId, updates)
    \/ \E email \in {NoEmail}, docId \in DocIdArgs : ArchiveDocument(email, docId)
    \/ \E email \in {NoEmail}, docId \in DocIdArgs : RestoreDocument(email, docId)
    \/ \E email \in {NoEmail}, docId \in DocIdArgs : DeleteDocument(email, docId)
    \/ \E email \in {NoEmail}, docIds \in AnonymousBulkIdArgs :
          BulkArchiveDocuments(email, docIds)
    \/ \E email \in {NoEmail}, docIds \in AnonymousBulkIdArgs :
          BulkRestoreDocuments(email, docIds)
    \/ \E email \in {NoEmail}, categoryName \in CategoryArgs :
          AddCategory(email, categoryName)
    \/ \E email \in {NoEmail}, docId \in DocIdArgs : ToggleFavorite(email, docId)
    \/ \E email \in {NoEmail}, docId \in DocIdArgs :
          RecordDocumentView(email, docId)
    \/ \E passed \in PassedUserArgs, email \in {NoEmail},
          action \in SessionActions :
          TrackUserSessionOf(passed, email, action)
    \/ Tick

SpecAnonymous == InitStaleRow /\ [][AnonymousNext]_vars

Next == DocumentsNext \/ FavoritesNext \/ SessionsNext

Spec == Init /\ [][Next]_vars

(***************************************************************************)
(* Properties of the document store.                                       *)
(***************************************************************************)
\* The rows of Documents that hold a document (not the titles).
documentRows(sheet) == {r \in 1..Len(sheet) : sheet[r].DocumentID[1] = "DOC"}

\* The tag names of a Tags cell: split on commas, trimmed.
tagsOf(text) ==
    IF text = <<>> THEN {}
    ELSE {splitTags(text)[i] : i \in 1..Len(splitTags(text))}

\* C1: every category row's DocumentCount is the number of document rows
\* whose Category is that category's name.
C1_CategoryCountMatches ==
    \A c \in 2..Len(categories) :
        categories[c].DocumentCount =
            Cardinality({r \in documentRows(documents) :
                           documents[r].Category = categories[c].CategoryName})

\* C2: every tag row's UsageCount is the number of document rows whose
\* Tags, split on commas and trimmed, contain that tag's name.
C2_TagCountMatches ==
    \A g \in 2..Len(tags) :
        tags[g].UsageCount =
            Cardinality({r \in documentRows(documents) :
                           tags[g].TagName \in tagsOf(documents[r].Tags)})

\* C3: archiveDocument, restoreDocument and an updateDocument whose
\* updates hold no Tags key leave the UsageCount of every tag row as it was.
C3_TagCountsKeptWithoutTagsKey ==
    [][\A email \in Users, docId \in DocIdArgs :
          (\/ ArchiveDocument(email, docId)
           \/ RestoreDocument(email, docId)
           \/ \E updates \in UpdateArgs :
                 /\ \A k \in 1..Len(updates) : updates[k][1] # "Tags"
                 /\ UpdateDocument(email, docId, updates))
          => tags' = tags]_vars

\* C4: no two document rows hold the same url.
C4_UrlUnique ==
    \A r, q \in documentRows(documents) :
        r # q => documents[r].GoogleDriveURL # documents[q].GoogleDriveURL

\* C5: addDocument by a signed-in user, with its required fields, of a url
\* that some document row holds returns the duplicate-URL failure and
\* leaves every sheet as it was, with exactly one row of that url.
C5_DuplicateUrlRejected ==
    [][\A email \in Users, documentData \in DocumentArgs :
          (/\ AddDocument(email, documentData)
           /\ documentData.DocumentName # ""
           /\ \E r \in documentRows(documents) :
                 documents[r].GoogleDriveURL = documentData.GoogleDriveURL)
          => /\ addDocument(Store, email, documentData, now).ret =
                    Failure("A document with this URL already exists")
             /\ UNCHANGED store
             /\ Cardinality({r \in documentRows(documents') :
                    documents'[r].GoogleDriveURL = documentData.GoogleDriveURL}) = 1
      ]_vars

(***************************************************************************)
(* Properties of the favorites.                                            *)
(***************************************************************************)
\* The rows of Favorites below the titles.
favoriteRows(sheet) == 2..Len(sheet)

\* The entries of the activity log with the given action on a document.
logged(action, email, docId) ==
    {i \in 2..Len(activityLog) :
        /\ activityLog[i].Action = action
        /\ activityLog[i].UserEmail = email
        /\ activityLog[i].DocID = docId}

\* C6: right after a successful deleteDocument(id) no Favorites row holds
\* that document id, and getUserFavorites of no user includes it.
C6_DeleteRemovesFavorites ==
    (last.op = "deleteDocument" /\ last.success)
    => /\ \A r \in favoriteRows(favorites) :
              favorites[r].DocumentID # last.docId
       /\ \A email \in Users :
              \A k \in 1..Len(getUserFavorites(Store, email)) :
                  getUserFavorites(Store, email)[k] # last.docId

\* A document that two users had favorited has just been deleted.
C6_Witness ==
    /\ last.op = "deleteDocument" /\ last.success
    /\ logged("Added Favorite", Ann, last.docId) # {}
    /\ logged("Added Favorite", Bob, last.docId) # {}
    /\ logged("Removed Favorite", Ann, last.docId) = {}
    /\ logged("Removed Favorite", Bob, last.docId) = {}

\* C7: no two Favorites rows hold the same user and the same document.
C7_OneRowPerFavorite ==
    \A r, q \in favoriteRows(favorites) :
        (/\ favorites[r].UserEmail = favorites[q].UserEmail
         /\ favorites[r].DocumentID = favorites[q].DocumentID) => r = q

\* A toggle has just removed a pair it found while another pair stays.
C7_Witness ==
    /\ last.op = "toggleFavorite" /\ last.success /\ ~last.favorited
    /\ <<last.user, last.docId>> \in last.before
    /\ favoriteRows(favorites) # {}

\* C8: when a user's toggleFavorite(id) directly follows that user's
\* toggleFavorite(id), the first returned favorited = true exactly if the
\* pair was not a favorite before it, the second returns the opposite,
\* and the favorite pairs are again those before the first.
C8_TwoTogglesRestore ==
    [][\A email \in Users, docId \in DocIdArgs :
          (/\ last.op = "toggleFavorite" /\ last.success
           /\ last.user = email /\ last.docId = docId
           /\ ToggleFavorite(email, docId))
          => /\ last.favorited = (<<email, docId>> \notin last.before)
             /\ last'.success
             /\ last'.favorited = ~last.favorited
             /\ favoritePairs(favorites') = last.before]_vars

\* The only two requests were a user's two toggles of one document: the
\* first added the favorite, the second removed it.
C8_Witness ==
    /\ requests = 2 /\ Len(activityLog) = 3
    /\ last.op = "toggleFavorite" /\ last.success /\ ~last.favorited
    /\ logged("Added Favorite", last.user, last.docId) = {2}
    /\ logged("Removed Favorite", last.user, last.docId) = {3}
    /\ favoritePairs(favorites) = {}

(***************************************************************************)
(* Properties of the sessions.                                             *)
(***************************************************************************)
\* The rows of OnlineUsers below the titles.
sessionRows(sheet) == 2..Len(sheet)

\* The emails of the users a getOnlineUsers returns.
returnedEmails(users) == {users[i].email : i \in 1..Len(users)}

\* C9: after trackUserSession (login, heartbeat or logout) of a signed-in
\* user and after getOnlineUsers, no session row's lastActivity is more
\* than sessionTimeout minutes before now, and getOnlineUsers returns no
\* user whose row had expired.
C9_SweepRemovesExpired ==
    [][\A email \in Users :
          /\ (\E action \in SessionActions : TrackUserSession(email, action))
             => \A r \in sessionRows(sessions') : ~isExpired(sessions'[r], now)
          /\ GetOnlineUsers(email)
             => /\ \A r \in sessionRows(sessions') : ~isExpired(sessions'[r], now)
                /\ returnedEmails(getOnlineUsers(Store, now).ret.users)
                       \cap expiredUsers(sessions, now) = {}]_vars

\* A getOnlineUsers has just swept the expired row of one user while the
\* row of another stays.
C9_Witness ==
    /\ last.op = "getOnlineUsers" /\ last.success
    /\ last.expired # {}
    /\ sessionRows(sessions) # {}
    /\ \A r \in sessionRows(sessions) : sessions[r].UserEmail \notin last.expired

\* C10: no two session rows hold the same user email.
C10_OneSessionPerUser ==
    \A r, q \in sessionRows(sessions) :
        sessions[r].UserEmail = sessions[q].UserEmail => r = q

\* A user who had a row has just logged in again: the row above another
\* user's holds the newer session id.
C10_Witness ==
    /\ last.op = "login" /\ last.success
    /\ Len(sessions) = 3
    /\ sessions[2].UserEmail = last.user
    /\ sessions[2].SessionID[2] > sessions[3].SessionID[2]

\* The session rows of a user, top-down.
ownRows(sheet, email) ==
    SelectSeq(Tail(sheet), LAMBDA row : row.UserEmail = email)

\* The session rows of the other users, top-down.
otherRows(sheet, email) ==
    SelectSeq(Tail(sheet), LAMBDA row : row.UserEmail # email)

\* The session rows of the other users that have not expired at clock t.
otherLiveRows(sheet, email, t) ==
    SelectSeq(Tail(sheet), LAMBDA row : row.UserEmail # email /\ ~isExpired(row, t))

\* The session rows of a user that have not expired at clock t.
ownLiveRows(sheet, email, t) ==
    SelectSeq(Tail(sheet), LAMBDA row : row.UserEmail = email /\ ~isExpired(row, t))

\* C11: a login of a signed-in user leaves exactly one row of the user,
\* Online with loginTime = lastActivity = now; a row of the user that has
\* not expired is overwritten (no row is added); the rows of the other
\* users that have not expired stay as they are, in number and content.
C11_LoginWritesOneRow ==
    [][\A email \in Users :
          TrackUserSession(email, "login")
          => /\ last'.success
             /\ Len(ownRows(sessions', email)) = 1
             /\ ownRows(sessions', email)[1].Status = "Online"
             /\ ownRows(sessions', email)[1].LoginTime = now
             /\ ownRows(sessions', email)[1].LastActivity = now
             /\ otherRows(sessions', email) = otherLiveRows(sessions, email, now)
             /\ ownLiveRows(sessions, email, now) # <<>>
                => Len(sessions') = 1 + Len(ownLiveRows(sessions, email, now))
                                      + Len(otherLiveRows(sessions, email, now))
      ]_vars

\* C11 as stated: a login over a row that has not expired leaves the
\* number of rows of the other users as it was.
C11_OtherRowCountKept ==
    [][\A email \in Users :
          (TrackUserSession(email, "login") /\ ownLiveRows(sessions, email, now) # <<>>)
          => Len(otherRows(sessions', email)) = Len(otherRows(sessions, email))]_vars

\* A user has just logged in over their row, later than the last activity
\* of another user whose row is below.
C11_Witness ==
    /\ last.op = "login" /\ last.success
    /\ Len(sessions) = 3
    /\ sessions[2].UserEmail = last.user
    /\ sessions[2].SessionID[2] > sessions[3].SessionID[2]
    /\ sessions[2].LoginTime = now /\ sessions[2].LastActivity = now
    /\ sessions[3].LastActivity < now

\* C12: a heartbeat of a user whose row has not expired changes only the
\* lastActivity (to now) and the status (to Online) of that row; a
\* heartbeat of a user without such a row writes the row a login writes;
\* the rows of the other users that have not expired stay as they are.
C12_HeartbeatTouchesOneRow ==
    [][\A email \in Users :
          TrackUserSession(email, "heartbeat")
          => /\ last'.success
             /\ otherRows(sessions', email) = otherLiveRows(sessions, email, now)
             /\ Len(ownRows(sessions', email)) = 1
             /\ IF ownLiveRows(sessions, email, now) # <<>>
                THEN ownRows(sessions', email)[1] =
                         [ownLiveRows(sessions, email, now)[1]
                             EXCEPT !.LastActivity = now, !.Status = "Online"]
                ELSE sessions' =
                         trackUserSession(Store, email, "login", now).S.sessions
      ]_vars

\* A heartbeat has just touched a row written at an earlier time.
C12_Witness ==
    /\ last.op = "heartbeat" /\ last.success
    /\ \E r \in sessionRows(sessions) :
          /\ sessions[r].UserEmail = last.user
          /\ sessions[r].LoginTime < now
          /\ sessions[r].LastActivity = now
    /\ \E r \in sessionRows(sessions) : sessions[r].UserEmail # last.user

\* C13: a logout of a signed-in user returns success, leaves no row of
\* the user and leaves the rows of the other users that have not expired
\* as they are, also when the user had no row; a second logout at once
\* changes nothing more.
C13_LogoutRemovesRow ==
    [][\A email \in Users :
          TrackUserSession(email, "logout")
          => /\ last'.success
             /\ ownRows(sessions', email) = <<>>
             /\ otherRows(sessions', email) = otherLiveRows(sessions, email, now)
             /\ trackUserSession(Store', email, "logout", now).ret.success
             /\ trackUserSession(Store', email, "logout", now).S.sessions = sessions'
      ]_vars

\* A user who had logged in has just logged out while the row of another
\* user stays.
C13_Witness ==
    /\ last.op = "logout" /\ last.success
    /\ requests = 3 /\ idCounter = 2 /\ now = 0
    /\ Len(sessions) = 2
    /\ sessions[2].UserEmail # last.user
    /\ sessions[2].SessionID[2] = 1

(***************************************************************************)
(* Properties of the counters and of the activity log.                     *)
(***************************************************************************)
\* The row of Categories of a name, 0 when none has it.
categoryRow(sheet, categoryName) ==
    LET hits == {c \in 2..Len(sheet) : sheet[c].CategoryName = categoryName}
    IN  IF hits = {} THEN 0 ELSE CHOOSE c \in hits : \A q \in hits : c <= q

\* The row of Documents of an id, 0 when none has it.
documentRow(sheet, docId) ==
    LET hits == {r \in documentRows(sheet) : sheet[r].DocumentID = docId}
    IN  IF hits = {} THEN 0 ELSE CHOOSE r \in hits : \A q \in hits : r <= q

\* The texts of the details of a log entry.
detailsOf(entry) == {entry.Details[k] : k \in 1..Len(entry.Details)}

\* C14: updateDocument(id, {Category: new}) of a document in category old,
\* old # new, both with a category row and old counted at least 1, takes
\* 1 off old's DocumentCount, adds 1 to new's, leaves the other category
\* rows as they are, stamps LastModified with now and appends one activity
\* entry whose details hold "Category updated".
C14_CategoryMove ==
    [][\A email \in Users, docId \in {last'.docId}, new \in CategoryMoveArgs :
          LET r == documentRow(documents, docId)
              old == documents[r].Category
              o == categoryRow(categories, old)
              n == categoryRow(categories, new)
          IN  (/\ r > 0
               /\ old # new /\ o > 0 /\ n > 0
               /\ categories[o].DocumentCount >= 1
               /\ last'.op = "updateDocument" /\ last'.user = email
               /\ UpdateDocument(email, docId, <<<<"Category", new>>>>))
              => /\ last'.success
                 /\ categories' =
                        [categories EXCEPT
                            ![o].DocumentCount = categories[o].DocumentCount - 1,
                            ![n].DocumentCount = categories[n].DocumentCount + 1]
                 /\ documents'[r].Category = new
                 /\ documents'[r].LastModified = now
                 /\ Len(activityLog') = Len(activityLog) + 1
                 /\ SubSeq(activityLog', 1, Len(activityLog)) = activityLog
                 /\ activityLog'[Len(activityLog')].DocID = docId
                 /\ "Category updated" \in detailsOf(activityLog'[Len(activityLog')])
      ]_vars

\* A document added to Finance has just been moved to HR at a later time,
\* while another document stays in Legal.
C14_Witness ==
    /\ last.op = "updateDocument" /\ last.success
    /\ documentRow(documents, last.docId) > 0
    /\ documents[documentRow(documents, last.docId)].Category = "HR"
    /\ documents[documentRow(documents, last.docId)].LastModified = now
    /\ documents[documentRow(documents, last.docId)].DateAdded < now
    /\ categoryRow(categories, "Finance") > 0
    /\ categoryRow(categories, "HR") > 0
    /\ categories[categoryRow(categories, "Finance")].DocumentCount = 0
    /\ categories[categoryRow(categories, "HR")].DocumentCount = 1
    /\ categoryRow(categories, "Legal") > 0
    /\ categories[categoryRow(categories, "Legal")].DocumentCount = 1
    /\ "Category updated" \in detailsOf(activityLog[Len(activityLog)])

\* C15: no category row's DocumentCount and no tag row's UsageCount is
\* negative.
C15_CountsNotNegative ==
    /\ \A c \in 2..Len(categories) : categories[c].DocumentCount >= 0
    /\ \A g \in 2..Len(tags) : tags[g].UsageCount >= 0

\* The first document was added before its category and the other were,
\* and has just been deleted: the delete took 1 off a count of 0.
C15_Witness ==
    /\ requests = 4
    /\ last.op = "deleteDocument" /\ last.success
    /\ last.docId = <<"DOC", 1>>
    /\ Len(categories) = 3
    /\ \A c \in 2..Len(categories) : categories[c].DocumentCount = 0

\* C16: every step leaves the entries of the activity log as they are
\* and where they are; it may add entries below them.
C16_LogAppendOnly ==
    [][/\ Len(activityLog') >= Len(activityLog)
       /\ SubSeq(activityLog', 1, Len(activityLog)) = activityLog]_vars

\* Three requests have logged below the titles, the last one a delete.
C16_Witness ==
    /\ Len(activityLog) >= 4
    /\ last.op = "deleteDocument" /\ last.success

\* The store as it is but with an activity log that can be written.
WithLog ==
    [Store EXCEPT !.sheets = @ \cup {"ActivityLog"},
                  !.activityLog = <<ActivityTitle>>,
                  !.logFails = FALSE]

\* Two results agree on what is returned and on every sheet but the
\* activity log.
sameButLog(result, logging) ==
    /\ result.ret = logging.ret
    /\ result.S.documents = logging.S.documents
    /\ result.S.categories = logging.S.categories
    /\ result.S.tags = logging.S.tags
    /\ result.S.favorites = logging.S.favorites

\* The activity log cannot be written.
logUnwritable == "ActivityLog" \notin sheets \/ logFails

\* C17: while the activity log cannot be written (no sheet ActivityLog,
\* or its appendRow throws), addDocument, updateDocument, deleteDocument,
\* addCategory and toggleFavorite return what they return and leave the
\* documents, counters and favorites they leave when it can be written.
C17_LogFailureSwallowed ==
    logUnwritable =>
        \A email \in Users :
            /\ \A documentData \in FavoriteDocumentArgs :
                   sameButLog(addDocument(Store, email, documentData, now),
                              addDocument(WithLog, email, documentData, now))
            /\ \A categoryName \in CategoryArgs :
                   sameButLog(addCategory(Store, email, categoryName, now),
                              addCategory(WithLog, email, categoryName, now))
            /\ \A docId \in DocIdArgs :
                   /\ \A updates \in CategoryUpdateArgs :
                          sameButLog(updateDocument(Store, email, docId, updates, now),
                                     updateDocument(WithLog, email, docId, updates, now))
                   /\ sameButLog(deleteDocument(Store, email, docId, now),
                                 deleteDocument(WithLog, email, docId, now))
                   /\ sameButLog(toggleFavorite(Store, email, docId, now),
                                 toggleFavorite(WithLog, email, docId, now))

\* With no activity log to write, a category and a document were added,
\* the document was favorited and has just been deleted, each with success.
C17_Witness ==
    /\ logUnwritable
    /\ requests = 4 /\ last.op = "deleteDocument" /\ last.success
    /\ Len(categories) = 2 /\ categories[2].DocumentCount = 0
    /\ Len(documents) = 1 /\ Len(favorites) = 1
    /\ idCounter = 3

(***************************************************************************)
(* Properties of the operations on a spreadsheet that lacks a sheet.       *)
(***************************************************************************)
\* The sheet an operation works on.
tableOf(op) ==
    CASE op \in {"getDocuments", "addDocument", "updateDocument", "deleteDocument"}
             -> "Documents"
      [] op \in {"getCategories", "addCategory"} -> "Categories"
      [] op = "getTags" -> "Tags"
      [] op \in {"getUserFavorites", "toggleFavorite"} -> "UserFavorites"
      [] op \in {"login", "heartbeat", "logout", "getOnlineUsers"} -> "OnlineUsers"
      [] op = "getRecentActivity" -> "ActivityLog"
      [] op \in {"recordDocumentView", "getAnalyticsData"} -> "Analytics"
      [] OTHER -> ""

\* C18: a public operation that a signed-in user has just invoked while
\* the sheet it works on does not exist returned success = false with the
\* error 'Database not initialized'.
C18_MissingTableFails ==
    (/\ last.op # "" /\ last.user \in Users
     /\ tableOf(last.op) # "" /\ tableOf(last.op) \notin sheets)
    => /\ ~last.success
       /\ last.error = "Database not initialized"

\* C19: what getInitialData returns to a signed-in user holds in
\* onlineUsers the users getOnlineUsers returns on the same store, and in
\* documents, categories, tags, favorites and recentActivity what
\* getDocuments, getCategories, getTags, getUserFavorites and
\* getRecentActivity return on it.
C19_BootstrapMatchesReads ==
    [][\A email \in Users :
          (/\ last'.op = "getInitialData" /\ last'.user = email
           /\ GetInitialData(email))
          => LET response == getInitialData(Store, email, now).ret
             IN  /\ response.success
                 /\ response.onlineUsers = getOnlineUsers(Store, now).ret.users
                 /\ response.documents = getDocuments(Store).documents
                 /\ response.categories = getCategories(Store).categories
                 /\ response.tags = getTags(Store).tags
                 /\ response.favorites = getUserFavorites(Store, email)
                 /\ response.recentActivity =
                        getRecentActivity(Store, recentActivityLimit).activities
      ]_vars

\* C20: updateDocument and deleteDocument with an id that no document row
\* holds return the failure 'Document not found' and leave every sheet as
\* it was, the title row of Documents included.
C20_NotFoundChangesNothing ==
    [][\A email \in Users, docId \in DocIdArgs \cup TitleIdArgs :
          (/\ documentRow(documents, docId) = 0
           /\ last'.docId = docId
           /\ \/ DeleteDocument(email, docId)
              \/ \E updates \in CategoryUpdateArgs :
                    UpdateDocument(email, docId, updates))
          => /\ ~last'.success
             /\ last'.error = "Document not found"
             /\ UNCHANGED store]_vars

\* The entries of docIds that a row of the sheet holds as a document id.
presentEntries(sheet, docIds) ==
    {i \in 1..Len(docIds) : documentRow(sheet, docIds[i]) > 0}

\* The status a bulk request writes.
bulkStatus(op) ==
    IF op = "bulkArchiveDocuments" THEN "Archived" ELSE "Active"

differs(row, updates) ==
    \E k \in 1..Len(updates) : row[updates[k][1]] # updates[k][2]

\* C22: a successful updateDocument of a document stamps its LastModified
\* with the current time whether or not a field of updates differs from the
\* stored value; when a field differs it appends exactly one entry
\* 'Updated Document' for the document, and when none differs it leaves
\* the activity log as it was.
C22_StampAlwaysLogIfChanged ==
    [][\A email \in Users, docId \in {last'.docId}, updates \in StampUpdateArgs :
          LET r == documentRow(documents, docId)
          IN  (/\ r > 0
               /\ last'.op = "updateDocument" /\ last'.user = email
               /\ last'.success
               /\ UpdateDocument(email, docId, updates))
              => /\ documents'[r].LastModified = now
                 /\ IF differs(documents[r], updates)
                    THEN /\ Len(activityLog') = Len(activityLog) + 1
                         /\ SubSeq(activityLog', 1, Len(activityLog)) = activityLog
                         /\ activityLog'[Len(activityLog')].Action = "Updated Document"
                         /\ activityLog'[Len(activityLog')].DocID = docId
                    ELSE activityLog' = activityLog]_vars

\* A document added earlier has just been updated with values it already
\* held: it is stamped with the later time and no update was ever logged.
C22_Witness ==
    /\ last.op = "updateDocument" /\ last.success
    /\ documentRow(documents, last.docId) > 0
    /\ documents[documentRow(documents, last.docId)].LastModified = now
    /\ documents[documentRow(documents, last.docId)].DateAdded < now
    /\ logged("Updated Document", last.user, last.docId) = {}

Min(a, b) == IF a <= b THEN a ELSE b

\* C23: getRecentActivity(limit) over a log of n entries returns
\* min(limit, n) entries, the i-th of them the i-th last row of the sheet,
\* so the last appended first and never the title row.
C23_RecentActivityLastFirst ==
    [][\A email \in Users, limit \in LimitArgs :
          (/\ last'.op = "getRecentActivity"
           /\ GetRecentActivity(email, limit))
          => LET n == Len(activityLog) - 1
                 k == Min(limit, n)
             IN  /\ last'.success
                 /\ Len(last'.activities) = k
                 /\ \A i \in 1..k :
                       last'.activities[i] = activityLog[Len(activityLog) + 1 - i]
                 /\ \A i \in 1..k : last'.activities[i] # ActivityTitle]_vars

\* A read with limit 2 of a log of three entries has returned the last
\* two, the last one first.
C23_Witness ==
    /\ last.op = "getRecentActivity"
    /\ Len(activityLog) = 4
    /\ last.activities = <<activityLog[4], activityLog[3]>>

\* C24: a step of updateDocument(id, ...) that writes a cell of Documents
\* of a document that a row still holds changes no row but that one, also
\* when another request has deleted a row since the rows were read.
C24_WriteLandsOnKey ==
    [][\A c \in 1..Len(calls) :
          (/\ documentRow(documents, calls[c].docId) > 0
           /\ UpdateSetValue(c) \/ UpdateStamp(c))
          => \A r \in 1..Len(documents) :
                documents'[r] # documents[r]
                => documents[r].DocumentID = calls[c].docId]_vars

\* Two addDocument requests, of two urls and one category that has a row,
\* are the requests served; both have returned, and both read the
\* category's count before either wrote it.
bothReadBeforeEitherWrote ==
    /\ Len(calls) = 2
    /\ \A c \in 1..2 :
          /\ calls[c].op = "addDocument" /\ calls[c].pc = "done"
          /\ calls[c].wrote /\ calls[c].writesSeen = 0
    /\ calls[1].documentData.GoogleDriveURL # calls[2].documentData.GoogleDriveURL
    /\ calls[1].documentData.Category = calls[2].documentData.Category

\* C25: when two addDocument requests of distinct urls and the same
\* existing category both read the category's DocumentCount before either
\* writes it, both documents are stored and the count ends 1, not 2, above
\* the count they read.
C25_LostCountUpdate ==
    bothReadBeforeEitherWrote
    => /\ \A c \in 1..2 : documentRow(documents, calls[c].docId) > 0
       /\ calls[1].currentCount = calls[2].currentCount
       /\ categories[calls[1].rowIndex + 1].DocumentCount =
             calls[1].currentCount + 1

\* Such an interleaving has happened: two documents in HR, counted 1.
C25_Witness ==
    /\ bothReadBeforeEitherWrote
    /\ Cardinality({r \in documentRows(documents) :
                       documents[r].Category = "HR"}) = 2
    /\ categories[categoryRow(categories, "HR")].DocumentCount = 1

\* C26: a mutating operation served while nobody is signed in returns
\* success = false and leaves every sheet as it was.
C26_AnonymousChangesNothing ==
    [][(/\ requests' = requests + 1
        /\ last'.user = NoEmail
        /\ last'.op \in MutatingOps)
       => /\ ~last'.success
          /\ UNCHANGED store]_vars

====
